---- MODULE Spec2Model ----
(***************************************************************************)
(* A model of the data-acquisition and filtering engine of FindMyStocks:   *)
(*   - the TTL / coverage aware cache        (src/src/api/data_cache.py)   *)
(*   - the batched upstream fetch    (src/src/api/fundamental_fetcher.py)  *)
(*   - the range filter                      (src/src/stock_filter.py)     *)
(*   - the merge and the nested extraction   (src/src/api/api_handler.py)  *)
(* Each part has its own specification (SpecCache, SpecFetch, ...) over    *)
(* the variables of that part; the variables of the other parts stay at    *)
(* their idle values.                                                      *)
(***************************************************************************)
EXTENDS Integers, Sequences, FiniteSets, TLC

VARIABLES
    file,       \* cache: the persisted store of one namespace (one JSON file)
    now,        \* cache: the wall clock, time.time(), in seconds
    cacheOp,    \* cache: what the running / last get_cache or save_cache call saw and returned
    prevOp,     \* cache: the call before it, when no time and no other call lay between
    stock_codes,    \* fetch: the identifier list of the call
    bstate,         \* fetch: per batch, the state of its future
    bresult,        \* fetch: per batch, what _fetch_single_batch returned
    results,        \* fetch: the batch numbers in the order the collecting loop got them
    failed_batches, \* fetch: the list failed_batches
    fetchPc,        \* fetch: where batch_fetch_fundamental_data stands
    fetchOut,       \* fetch: what it returned
    fetchLog,       \* fetch: the lists of its closing log lines
    args,           \* merge / filter / extract: the arguments of the call
    result,         \* merge / filter / extract: what the call returned
    attempt,        \* request: the loop variable of request_api
    retry_delay,    \* request: the delay of the next wait
    upstream,       \* request: what the upstream answered, attempt by attempt
    slept,          \* request: the waits made, in seconds
    reqPc,          \* request: "idle", "trying", "returned" or "raised"
    reqOut,         \* request: what request_api returned or raised
    fsFile,         \* stocks: the cache file of the financial-statement data
    stocksOp,       \* stocks: what the last filter_stocks_by_metrics call saw and did
    threads,        \* threads: per caller of the cache, its call and where the call stands
    file0,          \* threads: the cache file before the calls
    configFile,     \* filter config: the file config.FILTER_CONFIG_FILE
    configOp        \* filter config: the last call of FilterConfigManager and its outcome

cacheVars == <<file, now, cacheOp, prevOp>>
fetchVars == <<stock_codes, bstate, bresult, results, failed_batches, fetchPc, fetchOut,
              fetchLog>>

pureVars == <<args, result>>
reqVars == <<attempt, retry_delay, upstream, slept, reqPc, reqOut>>

stocksVars == <<fsFile, stocksOp>>

threadVars == <<threads, file0>>

configVars == <<configFile, configOp>>

vars == <<cacheVars, fetchVars, pureVars, reqVars, stocksVars, threadVars, configVars>>

nonCacheVars == <<fetchVars, pureVars, reqVars, stocksVars, threadVars, configVars>>
nonFetchVars == <<cacheVars, pureVars, reqVars, stocksVars, threadVars, configVars>>
nonPureVars == <<cacheVars, fetchVars, reqVars, stocksVars, threadVars, configVars>>
nonReqVars == <<cacheVars, fetchVars, pureVars, stocksVars, threadVars, configVars>>
\* what a filter_stocks_by_metrics call leaves alone: it reads the clock and
\* writes the two cache files
nonStocksVars == <<cacheOp, prevOp, fetchVars, pureVars, reqVars, threadVars, configVars>>
\* what the concurrent callers of the cache leave alone: they read the clock
\* and read and write the cache file
nonThreadVars == <<cacheOp, prevOp, fetchVars, pureVars, reqVars, stocksVars, configVars>>
nonConfigVars == <<cacheVars, fetchVars, pureVars, reqVars, stocksVars, threadVars>>

(***************************************************************************)
(* Part 1: the cache (data_cache.py)                                       *)
(***************************************************************************)

\* Bounds of the clock: it takes the values s + d * SecondsPerDay with
\* s in ClockSecs and 0 <= d <= MaxDays.
MaxDays == 1
ClockSecs == {1, 2}

\* expire_days * 24 * 60 * 60 in save_cache
SecondsPerDay == 24 * 60 * 60

Dates == {"2024-01-01", "2024-01-02"}
\* The metric lists the callers pass: never empty (api_handler.py checks the
\* list before it consults the cache), order and repetition are free.
PutLists == {<<"pe_ttm">>, <<"pb">>, <<"pb", "pe_ttm">>}
GetLists == PutLists \cup {<<"pe_ttm", "pb">>, <<"pb">>}
\* What is cached for a date: the fetch result {"total": n, "data": [...]},
\* a JSON value that json.dump / json.load give back unchanged.
DataVals == {"D1", "D2"}
\* expire_days as the callers pass it, in days: config.py sets 3; the clock of
\* the model spans MaxDays days, so the shorter positive values are the ones
\* whose expiry it reaches.
MaxExpireDays == 1
ExpireDays == 1..MaxExpireDays

\* A value of the store under one date.  present = FALSE: the date is no key.
\* hasExpireAt = FALSE: the old format, the data itself without a wrapper.
\* hasMetricsList = FALSE: a wrapper written before metricsList was added.
NoEntry ==
    [present |-> FALSE, hasExpireAt |-> FALSE, expireAt |-> 0,
     hasMetricsList |-> FALSE, metricsList |-> <<>>, data |-> "None"]

RawEntry(d) ==
    [present |-> TRUE, hasExpireAt |-> FALSE, expireAt |-> 0,
     hasMetricsList |-> FALSE, metricsList |-> <<>>, data |-> d]

WrappedNoMetrics(d, e) ==
    [present |-> TRUE, hasExpireAt |-> TRUE, expireAt |-> e,
     hasMetricsList |-> FALSE, metricsList |-> <<>>, data |-> d]

\* cache_entry of save_cache
CacheEntryNoMetricsMutant(d, ml, e) == WrappedNoMetrics(d, e)

CacheEntry(d, ml, e) ==
    [present |-> TRUE, hasExpireAt |-> TRUE, expireAt |-> e,
     hasMetricsList |-> TRUE, metricsList |-> ml, data |-> d]

EmptyStore == [d \in Dates |-> NoEntry]

\* The file of the namespace: absent, unreadable (a read raises IOError or
\* JSONDecodeError, e.g. after a write that failed half way), or a JSON object.
AbsentFile == [state |-> "absent", store |-> EmptyStore]
CorruptFile == [state |-> "corrupt", store |-> EmptyStore]
OkFile(s) == [state |-> "ok", store |-> s]

SeqToSet(s) == {s[i] : i \in 1..Len(s)}

\* _load_cache: a missing or unreadable file is the empty store
_load_cache(f) == IF f.state = "ok" THEN f.store ELSE EmptyStore

\* _save_cache: the outcomes of open(..., 'w') and json.dump.
\*   "ok"       the file holds the store
\*   "failOpen" open raised IOError: the file is as it was
\*   "failDump" the write raised IOError after open truncated the file
WriteOutcomes == {"ok", "failOpen", "failDump"}

_save_cache(f, store, w) ==
    CASE w = "ok" -> OkFile(store)
      [] w = "failOpen" -> f
      [] OTHER -> CorruptFile

\* the test of _clean_expired_cache:
\*   isinstance(v, dict) and 'expireAt' in v and expire_at and expire_at < time.time()
ExpiredAtExpiryMutant(e, t) == e.present /\ e.hasExpireAt /\ e.expireAt # 0 /\ e.expireAt <= t

IsExpired(e, t) == e.present /\ e.hasExpireAt /\ e.expireAt # 0 /\ e.expireAt < t

\* expired_dates of _clean_expired_cache
ExpiredDates(store, t) == {d \in Dates : IsExpired(store[d], t)}

\* the store _clean_expired_cache returns
NoSweepMutant(store, t) == store

CleanedStore(store, t) ==
    [d \in Dates |-> IF d \in ExpiredDates(store, t) THEN NoEntry ELSE store[d]]

\* `cache_data[date] = cache_entry` of save_cache
OnlyNewEntryMutant(cache_data, date, cache_entry) == [EmptyStore EXCEPT ![date] = cache_entry]

SetEntry(cache_data, date, cache_entry) == [cache_data EXCEPT ![date] = cache_entry]

\* `if not cache_data`
IsEmptyStore(store) == \A d \in Dates : ~store[d].present

Miss == [kind |-> "miss", data |-> "None"]
Hit(d) == [kind |-> "hit", data |-> d]
Raised == [kind |-> "raise", data |-> "None"]

\* requested_metrics_set.issubset(cached_metrics_set)
IgnoreCoverageMutant(requested, cached) == TRUE

Covers(requested, cached) == SeqToSet(requested) \subseteq SeqToSet(cached)

\* get_cache from `cached_value = cache_data.get(date)` on: the value returned,
\* store being the swept store and t the clock at the second time.time()
Lookup(store, date, metrics_list, t) ==
    LET cached_value == store[date] IN
    IF ~cached_value.present THEN Miss
    ELSE IF cached_value.hasExpireAt THEN
        IF cached_value.expireAt # 0 /\ cached_value.expireAt < t THEN Miss
        ELSE IF ~cached_value.hasMetricsList \/ cached_value.metricsList = <<>> THEN Miss
        ELSE IF ~Covers(metrics_list, cached_value.metricsList) THEN Miss
        ELSE Hit(cached_value.data)
    ELSE Miss

\* What a call saw: its arguments, the clock at its first and last reading, the
\* value the store it loaded held under its date, the dates whose expiry lay
\* before the clock when it started, the outcome of the write it made ("none":
\* it made none), and what it returned.
IdleOp ==
    [op |-> "none", date |-> "none", metrics |-> <<>>, data |-> "None",
     expireDays |-> 0, start |-> 0, end |-> 0, before |-> NoEntry,
     pastAtStart |-> {}, write |-> "none", ret |-> Miss]

ClockValues == {s + d * SecondsPerDay : s \in ClockSecs, d \in 0..MaxDays}

\* an entry with an expiry that lies before t
PastExpiry(e, t) == e.present /\ e.hasExpireAt /\ e.expireAt < t

\* The stores a first run can find: no file, or entries earlier versions wrote
\* (the old formats get_cache still reads).
LegacyEntries ==
    {NoEntry, RawEntry("D1"), WrappedNoMetrics("D1", 1 + SecondsPerDay)}

\* the fetch part at rest
FetchIdle ==
    /\ stock_codes = <<>>
    /\ bstate = <<>>
    /\ bresult = <<>>
    /\ results = <<>>
    /\ failed_batches = <<>>
    /\ fetchPc = "idle"
    /\ fetchOut = [total |-> 0, data |-> <<>>]
    /\ fetchLog = [failed_batches |-> <<>>, missing_codes |-> {}]

\* no filter_stocks_by_metrics call yet
NoCall == [op |-> "none"]
StocksIdle == fsFile = AbsentFile /\ stocksOp = NoCall

\* the callers of the threads part, none of them in a call
Threads == {1, 2}
NoThreadCall ==
    [op |-> "none", pc |-> "idle", date |-> "none", local |-> EmptyStore, entry |-> NoEntry,
     at |-> 0, ret |-> Miss, overlapped |-> FALSE]
ThreadsIdle == threads = [p \in Threads |-> NoThreadCall] /\ file0 = AbsentFile

\* no call of the merge, the filter or the extraction
NoArgs == [none |-> TRUE]
Pending == [pending |-> TRUE]
PureIdle == args = NoArgs /\ result = Pending

\* no filter-config file, and no call of FilterConfigManager made
AbsentConfig == [state |-> "absent"]
NoConfigOp == [op |-> "none"]
ConfigIdle == configFile = AbsentConfig /\ configOp = NoConfigOp

\* no request under way
NoOutcome == [kind |-> "none", tagged |-> FALSE, message |-> ""]
ReqIdle ==
    /\ attempt = 0 /\ retry_delay = 0 /\ upstream = <<>> /\ slept = <<>>
    /\ reqPc = "idle" /\ reqOut = NoOutcome

InitCache ==
    /\ ConfigIdle
    /\ FetchIdle
    /\ PureIdle
    /\ ReqIdle
    /\ StocksIdle
    /\ ThreadsIdle
    /\ file \in {AbsentFile} \cup {OkFile(s) : s \in [Dates -> LegacyEntries]}
    /\ now = 1
    /\ cacheOp = IdleOp
    /\ prevOp = IdleOp

\* the caller takes the result of the call; the next call is a new one
Return ==
    /\ cacheOp.op # "none"
    /\ cacheOp' = IdleOp
    /\ prevOp' = IdleOp
    /\ UNCHANGED <<file, now>>
    /\ UNCHANGED nonCacheVars

\* time passes between two calls
TickSecond ==
    /\ cacheOp.op = "none"
    /\ now + 1 \in ClockValues
    /\ now' = now + 1
    /\ UNCHANGED <<file, cacheOp, prevOp>>
    /\ UNCHANGED nonCacheVars

TickDay ==
    /\ cacheOp.op = "none"
    /\ now \div SecondsPerDay < MaxDays
    /\ now' = now + SecondsPerDay
    /\ UNCHANGED <<file, cacheOp, prevOp>>
    /\ UNCHANGED nonCacheVars

\* get_cache(date, metrics_list, cache_file), called when no call runs or right
\* after a save_cache for the same date and metric list (any other get after a
\* save is the get that follows the save's Return).  w is the outcome of the write the sweep makes (if it
\* makes one); dt is the time that passes between the sweep's time.time() and
\* the one of the lookup.
GetCache(date, metrics_list, w, dt) ==
    LET cache_data == _load_cache(file)
        expired == ExpiredDates(cache_data, now)
        swept == CleanedStore(cache_data, now)
        t2 == now + dt
        op == [IdleOp EXCEPT !.op = "get", !.date = date, !.metrics = metrics_list,
                             !.start = now, !.end = t2,
                             !.before = cache_data[date],
                             !.pastAtStart =
                                 {d \in Dates : PastExpiry(cache_data[d], now)}]
    IN
    /\ \/ cacheOp.op = "none"
       \/ cacheOp.op = "put" /\ cacheOp.date = date /\ cacheOp.metrics = metrics_list
    /\ t2 \in ClockValues
    /\ now' = t2
    /\ prevOp' = cacheOp
    /\ UNCHANGED nonCacheVars
    /\ IF IsEmptyStore(cache_data) THEN
            /\ w = "ok" /\ dt = 0
            /\ UNCHANGED file
            /\ cacheOp' = [op EXCEPT !.ret = Miss]
       ELSE IF expired # {} THEN
            /\ file' = _save_cache(file, swept, w)
            /\ IF w = "ok"
               THEN cacheOp' = [op EXCEPT !.write = w,
                                          !.ret = Lookup(swept, date, metrics_list, t2)]
               ELSE /\ dt = 0
                    /\ cacheOp' = [op EXCEPT !.write = w, !.ret = Raised]
       ELSE
            /\ w = "ok"
            /\ UNCHANGED file
            /\ cacheOp' = [op EXCEPT !.ret = Lookup(swept, date, metrics_list, t2)]

\* save_cache(date, data, metrics_list, cache_file, expire_days)
SaveCache(date, data, metrics_list, expire_days, w) ==
    LET cache_data == _load_cache(file)
        expire_at == now + expire_days * SecondsPerDay
        cache_entry == CacheEntry(data, metrics_list, expire_at)
        updated == SetEntry(cache_data, date, cache_entry)
    IN
    /\ cacheOp.op = "none"
    /\ file' = _save_cache(file, updated, w)
    /\ UNCHANGED now
    /\ prevOp' = IdleOp
    /\ UNCHANGED nonCacheVars
    /\ cacheOp' = [IdleOp EXCEPT !.op = "put", !.date = date, !.metrics = metrics_list,
                                 !.data = data, !.expireDays = expire_days,
                                 !.start = now, !.end = now,
                                 !.write = w,
                                 !.ret = IF w = "ok" THEN Miss ELSE Raised]

NextCache ==
    \/ Return
    \/ TickSecond
    \/ TickDay
    \/ \E d \in Dates, ml \in GetLists, w \in WriteOutcomes, dt \in {0, 1} :
            GetCache(d, ml, w, dt)
    \/ \E d \in Dates, v \in DataVals, ml \in PutLists, n \in ExpireDays,
          w \in WriteOutcomes :
            SaveCache(d, v, ml, n, w)

SpecCache == InitCache /\ [][NextCache]_vars

\* ---- the claims about the cache ----

\* the last call was a get_cache that returned (the sweep's write, if any, worked)
GetReturned == cacheOp.op = "get" /\ cacheOp.write \in {"none", "ok"}

\* the entry the get found under its date is a wrapper with a coverage list
\* that covers the requested metrics
FoundCovered ==
    /\ cacheOp.before.present
    /\ cacheOp.before.hasExpireAt
    /\ cacheOp.before.hasMetricsList
    /\ SeqToSet(cacheOp.metrics) \subseteq SeqToSet(cacheOp.before.metricsList)

\* C1 as stated: get_cache returns the entry's records if and only if an entry
\* for the date exists, now < expiresAt, and every requested metric is in the
\* entry's coverage; in every other case it returns a miss.
C1_HitIffStrictlyBeforeExpiry ==
    GetReturned =>
        /\ (cacheOp.ret.kind = "hit") <=>
                (FoundCovered /\ cacheOp.end < cacheOp.before.expireAt)
        /\ cacheOp.ret.kind = "hit" => cacheOp.ret.data = cacheOp.before.data
        /\ cacheOp.ret.kind # "hit" => cacheOp.ret = Miss

\* C1 amended: get_cache returns the entry's records if and only if an entry
\* for the date exists, now <= expiresAt (the entry is still served at the
\* instant of its expiry), and every requested metric is in the entry's
\* coverage; in every other case it returns a miss.
C1_HitIffNotPastExpiry ==
    GetReturned =>
        /\ (cacheOp.ret.kind = "hit") <=>
                (FoundCovered /\ cacheOp.end <= cacheOp.before.expireAt)
        /\ cacheOp.ret.kind = "hit" => cacheOp.ret.data = cacheOp.before.data
        /\ cacheOp.ret.kind # "hit" => cacheOp.ret = Miss

\* a get that is served an entry at the very instant of its expiry
C1_Witness ==
    /\ GetReturned
    /\ cacheOp.ret.kind = "hit"
    /\ cacheOp.end = cacheOp.before.expireAt

\* the get follows a save_cache that worked, with the same date and the same
\* metric list, and no time has passed since the save read the clock
GetRightAfterPut ==
    /\ GetReturned
    /\ prevOp.op = "put"
    /\ prevOp.write = "ok"
    /\ prevOp.date = cacheOp.date
    /\ prevOp.metrics = cacheOp.metrics
    /\ cacheOp.end = prevOp.start

C3_TtlSweep ==
    GetReturned =>
        /\ \A d \in cacheOp.pastAtStart : ~file.store[d].present
        /\ cacheOp.ret.kind = "hit" => cacheOp.date \notin cacheOp.pastAtStart

\* a get for one date that swept the expired entry of another date
C3_Witness ==
    /\ GetReturned
    /\ cacheOp.write = "ok"
    /\ \E d \in cacheOp.pastAtStart : d # cacheOp.date
    /\ cacheOp.ret.kind = "hit"

\* C18: a persistence failure while get_cache reads the store (missing,
\* unreadable or corrupt file, or a failure inside the expiry sweep that
\* get_cache performs) never raises to the caller of get_cache; get_cache
\* behaves as a cache miss.
C18_ReadNeverRaises ==
    cacheOp.op = "get" =>
        /\ cacheOp.ret # Raised
        /\ (file.state # "ok" \/ cacheOp.write \in {"failOpen", "failDump"}) => cacheOp.ret = Miss

\* C18, for the file that is missing, unreadable or corrupt when get_cache
\* loads it: get_cache returns None and writes nothing.
C18_UnreadableFileIsMiss ==
    (cacheOp.op = "get" /\ cacheOp.write = "none" /\ file.state # "ok") =>
        cacheOp.ret = Miss

\* a step of save_cache on a file that loads
PutOnLoadedStore ==
    /\ cacheOp.op = "none"
    /\ cacheOp'.op = "put"
    /\ file.state = "ok"

\* the step leaves the entries of the other dates, and the file of the other
\* namespace, as they were
OtherEntriesKept ==
    /\ file'.state = "ok"
    /\ \A d \in Dates \ {cacheOp'.date} : file'.store[d] = file.store[d]
    /\ fsFile' = fsFile

C36_PutFrameOnTornWrite == [][PutOnLoadedStore => OtherEntriesKept]_vars

GetStep == cacheOp.op # "get" /\ cacheOp'.op = "get"

\* the entry has an expireAt that is strictly earlier than t
StrictlyPast(e, t) == e.present /\ e.hasExpireAt /\ e.expireAt < t

\* the step changes the file only by deleting entries whose expireAt is
\* strictly earlier than the clock, and leaves the file alone when there is none
OnlyExpiredDeleted ==
    /\ file'.state = file.state
    /\ \A d \in Dates :
            file'.store[d] # file.store[d] =>
                (StrictlyPast(file.store[d], now) /\ file'.store[d] = NoEntry)
    /\ (\A d \in Dates : ~StrictlyPast(file.store[d], now)) =>
            (cacheOp'.write = "none" /\ file' = file)

C37_GetFrameOnTornWrite == [][GetStep => OnlyExpiredDeleted]_vars

C37_WitnessAtExpiry ==
    /\ cacheOp.op = "get"
    /\ cacheOp.write = "none"
    /\ \E d \in Dates : file.store[d].present /\ file.store[d].hasExpireAt
                        /\ file.store[d].expireAt = cacheOp.start

(***************************************************************************)
(* Part 2: the batched fetch (fundamental_fetcher.py)                      *)
(***************************************************************************)

\* The longest identifier list of the model.
MaxCodes == 6
\* config.BATCH_SIZE (100) and config.MAX_WORKERS (10), scaled to the lists of
\* the model: three batches of which two run at a time.
BATCH_SIZE == 2
MAX_WORKERS == 2

AllCodes == <<"00001", "00002", "00003", "00004", "00005", "00006", "00007", "00008">>

Min(a, b) == IF a < b THEN a ELSE b

Reverse(s) == [i \in 1..Len(s) |-> s[Len(s) + 1 - i]]

\* total_batches = (len(stock_codes) + config.BATCH_SIZE - 1) // config.BATCH_SIZE
TotalBatches(codes) == (Len(codes) + BATCH_SIZE - 1) \div BATCH_SIZE

\* range(0, len(stock_codes), config.BATCH_SIZE), in order
RangeStarts(codes) ==
    LET starts == {i \in 0..(Len(codes) - 1) : i % BATCH_SIZE = 0}
    IN [k \in 1..Cardinality(starts) |-> (k - 1) * BATCH_SIZE]

\* batches: (stock_codes[i:i+BATCH_SIZE], i // BATCH_SIZE + 1) for each i
FullBatchesOnlyMutant(codes) ==
    [k \in 1..(Len(codes) \div BATCH_SIZE) |->
        [batch |-> SubSeq(codes, (k - 1) * BATCH_SIZE + 1, k * BATCH_SIZE),
         batch_num |-> k]]

Batches(codes) ==
    LET starts == RangeStarts(codes)
    IN [k \in 1..Len(starts) |->
            [batch |-> SubSeq(codes, starts[k] + 1,
                              Min(starts[k] + BATCH_SIZE, Len(codes))),
             batch_num |-> starts[k] \div BATCH_SIZE + 1]]

\* the batch submitted with number n
BatchNumbered(codes, n) ==
    LET bs == Batches(codes)
    IN bs[CHOOSE k \in 1..Len(bs) : bs[k].batch_num = n].batch

BatchNums(codes) == {Batches(codes)[k].batch_num : k \in 1..Len(Batches(codes))}

\* as many codes as the batch has, all the first code of the batch
FirstOnly(batch) == [i \in 1..Len(batch) |-> batch[1]]

\* a record of a response
Rec(c) == [stockCode |-> c]
RecsOf(cs) == [i \in 1..Len(cs) |-> Rec(cs[i])]

\* What one batch's request can come to.
\*   "raise"   request_api raised (HTTP error, or transport error after the retries)
\*   "badBody" the body is no JSON, or no object with a list under 'data'
\*   "noData"  a JSON object without 'data'
\*   "data"    a JSON object with records under 'data': those of the batch in
\*             the batch's order, in reverse order, without the first code, or
\*             as many as the batch has codes, all of the first code
Outcomes(batch) ==
    {[kind |-> "raise", records |-> <<>>],
     [kind |-> "badBody", records |-> <<>>],
     [kind |-> "noData", records |-> <<>>]}
    \cup {[kind |-> "data", records |-> r] :
            r \in {RecsOf(batch), RecsOf(Reverse(batch)), RecsOf(Tail(batch)),
                   RecsOf(FirstOnly(batch))}}

NoResult ==
    [batch_num |-> 0, batch_data |-> <<>>, missing_codes |-> {}, error |-> FALSE,
     response |-> [kind |-> "none", records |-> <<>>]]

\* _fetch_single_batch: (batch_num, batch_data, missing_codes, error), with the
\* response it got
NoDataFailsMutant(batch, batch_num, outcome) ==
    IF outcome.kind \in {"raise", "badBody", "noData"}
    THEN [batch_num |-> batch_num, batch_data |-> <<>>, missing_codes |-> {},
          error |-> TRUE, response |-> outcome]
    ELSE [batch_num |-> batch_num, batch_data |-> outcome.records,
          missing_codes |-> IF Len(outcome.records) # Len(batch)
                            THEN SeqToSet(batch) \ {outcome.records[i].stockCode :
                                                        i \in 1..Len(outcome.records)}
                            ELSE {},
          error |-> FALSE, response |-> outcome]

_fetch_single_batch(batch, batch_num, outcome) ==
    IF outcome.kind \in {"raise", "badBody"}
    THEN [batch_num |-> batch_num, batch_data |-> <<>>, missing_codes |-> {},
          error |-> TRUE, response |-> outcome]
    ELSE LET batch_data == IF outcome.kind = "noData" THEN <<>> ELSE outcome.records
             received_codes == {batch_data[i].stockCode : i \in 1..Len(batch_data)}
             missing_codes == IF Len(batch_data) # Len(batch)
                              THEN SeqToSet(batch) \ received_codes
                              ELSE {}
         IN [batch_num |-> batch_num, batch_data |-> batch_data,
             missing_codes |-> missing_codes, error |-> FALSE, response |-> outcome]

RECURSIVE InsertByNum(_, _)
InsertByNum(n, s) ==
    IF s = <<>> THEN <<n>>
    ELSE IF n <= Head(s) THEN <<n>> \o s
    ELSE <<Head(s)>> \o InsertByNum(n, Tail(s))

RECURSIVE SortByNum(_)
SortByNum(s) == IF s = <<>> THEN <<>> ELSE InsertByNum(Head(s), SortByNum(Tail(s)))

\* sorted(results.items()): the collected batch numbers in ascending order
CompletionOrderMutant(collected) == collected

SortedResults(collected) == SortByNum(collected)

\* the loop over sorted_results: all_data.extend(batch_data) for the batches
\* without error
RECURSIVE ExtendAll(_, _)
ExtendAll(order, res) ==
    IF order = <<>> THEN <<>>
    ELSE (IF ~res[Head(order)].error THEN res[Head(order)].batch_data ELSE <<>>)
         \o ExtendAll(Tail(order), res)

\* the loop over sorted_results: missing_codes.extend(batch_missing) for the
\* batches without error, as the set of the codes of the list
MissingAll(order, res) ==
    UNION {res[order[i]].missing_codes : i \in {j \in 1..Len(order) : ~res[order[j]].error}}

\* the lists of the two closing log lines: failed_batches of the warning,
\* missing_codes of the summary; NoLog before them
NoLog == [failed_batches |-> <<>>, missing_codes |-> {}]

\* `not stock_codes`
NeverEmptyMutant(codes) == FALSE

NoCodes(codes) == codes = <<>>

\* len(failed_batches) == total_batches
AnyFailedMutant(failed, total) == Len(failed) > 0

NeverRaiseMutant(failed, total) == FALSE

AllFailed(failed, total) == Len(failed) = total

\* the cache part at rest
CacheIdle == file = AbsentFile /\ now = 1 /\ cacheOp = IdleOp /\ prevOp = IdleOp

InitFetch ==
    /\ ConfigIdle
    /\ CacheIdle
    /\ PureIdle
    /\ ReqIdle
    /\ StocksIdle
    /\ ThreadsIdle
    /\ stock_codes \in {SubSeq(AllCodes, 1, n) : n \in 0..MaxCodes}
    /\ bstate = <<>>
    /\ bresult = <<>>
    /\ results = <<>>
    /\ failed_batches = <<>>
    /\ fetchPc = "idle"
    /\ fetchOut = [total |-> 0, data |-> <<>>]
    /\ fetchLog = NoLog

\* `if not stock_codes: return {"total": 0, "data": []}`
FetchEmpty ==
    /\ fetchPc = "idle"
    /\ NoCodes(stock_codes)
    /\ fetchPc' = "returned"
    /\ fetchOut' = [total |-> 0, data |-> <<>>]
    /\ UNCHANGED <<stock_codes, bstate, bresult, results, failed_batches, fetchLog>>
    /\ UNCHANGED nonFetchVars

\* the batches are made and all submitted to the pool
SubmitAll ==
    /\ fetchPc = "idle"
    /\ ~NoCodes(stock_codes)
    /\ fetchPc' = "collecting"
    /\ bstate' = [n \in BatchNums(stock_codes) |-> "queued"]
    /\ bresult' = [n \in BatchNums(stock_codes) |-> NoResult]
    /\ UNCHANGED <<stock_codes, results, failed_batches, fetchOut, fetchLog>>
    /\ UNCHANGED nonFetchVars

\* max_workers = min(config.MAX_WORKERS, total_batches)
OneWorkerShortMutant(total_batches) == Min(MAX_WORKERS, total_batches) - 1

max_workers(total_batches) == Min(MAX_WORKERS, total_batches)

\* a free worker of the pool, of min(MAX_WORKERS, total_batches) workers, takes
\* the batch submitted first among the waiting ones
StartBatch(n) ==
    /\ fetchPc = "collecting"
    /\ n \in DOMAIN bstate
    /\ bstate[n] = "queued"
    /\ \A m \in DOMAIN bstate : m < n => bstate[m] # "queued"
    /\ Cardinality({m \in DOMAIN bstate : bstate[m] = "running"})
            < max_workers(TotalBatches(stock_codes))
    /\ bstate' = [bstate EXCEPT ![n] = "running"]
    /\ UNCHANGED <<stock_codes, bresult, results, failed_batches, fetchPc, fetchOut, fetchLog>>
    /\ UNCHANGED nonFetchVars

\* _fetch_single_batch of a running batch returns
BatchDone(n) ==
    /\ fetchPc = "collecting"
    /\ n \in DOMAIN bstate
    /\ bstate[n] = "running"
    /\ bstate' = [bstate EXCEPT ![n] = "done"]
    /\ \E outcome \in Outcomes(BatchNumbered(stock_codes, n)) :
            bresult' = [bresult EXCEPT
                ![n] = _fetch_single_batch(BatchNumbered(stock_codes, n), n, outcome)]
    /\ UNCHANGED <<stock_codes, results, failed_batches, fetchPc, fetchOut, fetchLog>>
    /\ UNCHANGED nonFetchVars

\* one round of `for future in as_completed(future_to_batch)`
Collect(n) ==
    /\ fetchPc = "collecting"
    /\ n \in DOMAIN bstate
    /\ bstate[n] = "done"
    /\ n \notin SeqToSet(results)
    /\ results' = Append(results, bresult[n].batch_num)
    /\ failed_batches' = IF bresult[n].error
                         THEN Append(failed_batches, bresult[n].batch_num)
                         ELSE failed_batches
    /\ UNCHANGED <<stock_codes, bstate, bresult, fetchPc, fetchOut, fetchLog>>
    /\ UNCHANGED nonFetchVars

\* after the loop: the merge in batch order, then raise or return
Finish ==
    /\ fetchPc = "collecting"
    /\ Len(results) = Cardinality(DOMAIN bstate)
    /\ LET all_data == ExtendAll(SortedResults(results), bresult)
       IN IF AllFailed(failed_batches, TotalBatches(stock_codes))
          THEN fetchPc' = "raised" /\ UNCHANGED fetchOut
          ELSE /\ fetchPc' = "returned"
               /\ fetchOut' = [total |-> Len(all_data), data |-> all_data]
    /\ fetchLog' = [failed_batches |-> failed_batches,
                     missing_codes |->
                        IF AllFailed(failed_batches, TotalBatches(stock_codes))
                        THEN {} ELSE MissingAll(SortedResults(results), bresult)]
    /\ UNCHANGED <<stock_codes, bstate, bresult, results, failed_batches>>
    /\ UNCHANGED nonFetchVars

NextFetch ==
    \/ FetchEmpty
    \/ SubmitAll
    \/ \E n \in 1..MaxCodes : StartBatch(n)
    \/ \E n \in 1..MaxCodes : BatchDone(n)
    \/ \E n \in 1..MaxCodes : Collect(n)
    \/ Finish

SpecFetch == InitFetch /\ [][NextFetch]_vars

\* The threads of the pool and the collecting thread keep running, and every
\* upstream attempt returns or fails: a step that can be taken is taken.
SpecFetchFair == SpecFetch /\ WF_vars(NextFetch)

\* ---- the claims about the fetch ----

\* the call, of a list that is not empty, has ended
FetchEnded == fetchPc \in {"returned", "raised"} /\ stock_codes # <<>>

\* a batch succeeded: its request returned a body the batch could read
Succeeded(n) == bresult[n].response.kind \in {"data", "noData"}

\* the records the responses of the succeeded batches n..last gave, batch by
\* batch in ascending batch number, each batch's in the order of its response
RECURSIVE RecordsFrom(_, _)
RecordsFrom(n, last) ==
    IF n > last THEN <<>>
    ELSE (IF Succeeded(n) THEN bresult[n].response.records ELSE <<>>)
         \o RecordsFrom(n + 1, last)

AscendingRecords == RecordsFrom(1, Cardinality(DOMAIN bresult))

\* C4: for every completion order of the batches, the records returned are the
\* succeeded batches' records concatenated in ascending batch index, each
\* batch's records in the order its response gave them.
C4_BatchOrder ==
    (FetchEnded /\ fetchPc = "returned") => fetchOut.data = AscendingRecords

\* a return after a later batch was collected before an earlier one, both with records
C4_Witness ==
    /\ FetchEnded /\ fetchPc = "returned"
    /\ \E i, j \in 1..Len(results) :
            /\ i < j /\ results[i] > results[j]
            /\ bresult[results[i]].batch_data # <<>>
            /\ bresult[results[j]].batch_data # <<>>
            /\ bresult[results[j]].response.records
                    # RecsOf(BatchNumbered(stock_codes, results[j]))

\* at least one batch succeeded and at least one failed
PartialFailure ==
    /\ FetchEnded
    /\ \E n \in DOMAIN bresult : Succeeded(n)
    /\ \E n \in DOMAIN bresult : ~Succeeded(n)

\* C5: whenever at least one batch succeeds and at least one fails, the call
\* does not raise; it returns exactly the records of the succeeded batches (no
\* record of a failed batch) and total is the number of returned records.
C5_PartialFailure ==
    PartialFailure =>
        /\ fetchPc = "returned"
        /\ fetchOut.data = AscendingRecords
        /\ fetchOut.total = Len(fetchOut.data)
        /\ \A i \in 1..Len(fetchOut.data) : \A n \in DOMAIN bresult :
                fetchOut.data[i].stockCode \in SeqToSet(BatchNumbered(stock_codes, n))
                    => Succeeded(n)

\* the middle batch of three failed, the other two brought records
C5_Witness ==
    /\ PartialFailure
    /\ Cardinality(DOMAIN bresult) = 3
    /\ ~Succeeded(2)
    /\ Succeeded(1) /\ Succeeded(3)
    /\ fetchOut.total = 3

\* C6: for a non-empty identifier list, if every batch fails the call raises
\* and never returns an empty result; and the call raises only in that case.
C6_AllFail ==
    /\ FetchEnded => ((fetchPc = "raised") <=> (\A n \in DOMAIN bresult : ~Succeeded(n)))
    /\ fetchPc = "raised" => stock_codes # <<>>

\* a call of several batches that raised
C6_Witness ==
    /\ FetchEnded
    /\ fetchPc = "raised"
    /\ Cardinality(DOMAIN bresult) >= 2
    /\ \E n \in DOMAIN bresult : bresult[n].response.kind = "raise"
    /\ \E n \in DOMAIN bresult : bresult[n].response.kind = "badBody"

\* the codes the response of batch n has records of
ReceivedCodes(n) ==
    {bresult[n].response.records[i].stockCode : i \in 1..Len(bresult[n].response.records)}

\* the requested codes of batch n that do not occur in its response
AbsentCodes(n) == SeqToSet(BatchNumbered(stock_codes, n)) \ ReceivedCodes(n)

\* batch n has returned from _fetch_single_batch with a response it could read
BatchSucceeded(n) == n \in DOMAIN bresult /\ bstate[n] = "done" /\ Succeeded(n)

\* C15: for every successful batch, the missing list recorded for that batch
\* is exactly the set of requested codes of the chunk that do not occur as a
\* stockCode in the response, for every response (including responses with as
\* many records as the chunk has codes); a non-empty missing list does not
\* make the batch fail.
C15_MissingDetection ==
    \A n \in DOMAIN bresult :
        BatchSucceeded(n) =>
            /\ bresult[n].missing_codes = AbsentCodes(n)
            /\ ~bresult[n].error

\* C15, for the responses that have not as many records as the chunk has
\* codes: the missing list is exactly the set of requested codes absent from
\* the response; and no successful batch is marked failed.
C15_MissingDetectionOtherLength ==
    \A n \in DOMAIN bresult :
        BatchSucceeded(n) =>
            /\ Len(bresult[n].response.records) # Len(BatchNumbered(stock_codes, n))
                    => bresult[n].missing_codes = AbsentCodes(n)
            /\ ~bresult[n].error

\* the codes of the batches that failed
FailedCodes == UNION {SeqToSet(BatchNumbered(stock_codes, n)) : n \in SeqToSet(failed_batches)}

\* C16: on partial failure the identifiers of every failed batch are in the
\* logged list of missing identifiers of the fetch, together with the
\* identifiers missing from successful batches.
C16_FailedIdsLogged ==
    (PartialFailure /\ fetchPc = "returned") =>
        /\ FailedCodes \subseteq fetchLog.missing_codes
        /\ \A n \in DOMAIN bresult :
                Succeeded(n) => bresult[n].missing_codes \subseteq fetchLog.missing_codes

\* C16, what the log does hold on partial failure: the numbers of the failed
\* batches, and the identifiers the successful batches recorded as missing.
C16_FailedBatchNumbersLogged ==
    (PartialFailure /\ fetchPc = "returned") =>
        /\ SeqToSet(fetchLog.failed_batches) = {n \in DOMAIN bresult : ~Succeeded(n)}
        /\ fetchLog.missing_codes =
                UNION {bresult[n].missing_codes : n \in {m \in DOMAIN bresult : Succeeded(m)}}

\* C17: the fetch of an empty identifier list returns {total: 0, data: []},
\* submits no batch, starts no worker and so issues no upstream request.
C17_EmptyList ==
    (stock_codes = <<>> /\ fetchPc # "idle") =>
        /\ fetchPc = "returned"
        /\ fetchOut = [total |-> 0, data |-> <<>>]
        /\ bstate = <<>>
        /\ bresult = <<>>
        /\ results = <<>>

\* the fetch of the empty list has returned
C17_Witness ==
    /\ stock_codes = <<>>
    /\ fetchPc = "returned"
    /\ fetchOut.total = 0

\* the call has returned or raised
FetchOver == fetchPc \in {"returned", "raised"}

\* batch n has one recorded outcome: its worker returned one result and the
\* loop over as_completed recorded it once
RecordedOnce(n) ==
    /\ bstate[n] = "done"
    /\ bresult[n].batch_num = n
    /\ Cardinality({i \in 1..Len(results) : results[i] = n}) = 1

\* C34: a batch that fails or is waiting between retries never keeps a sibling
\* batch from being issued and completing; with the threads scheduled fairly and
\* every upstream attempt returning or failing, every batch in the end has
\* exactly one recorded outcome (success or failure) and the fetch in the end
\* returns or raises.
C34_IsolationAndProgress ==
    /\ <>(FetchOver /\ \A n \in DOMAIN bstate : RecordedOnce(n))
    /\ [](\A n \in DOMAIN bstate : Cardinality({i \in 1..Len(results) : results[i] = n}) <= 1)

\* the call is over with three batches, the first of them failed and the
\* others succeeded
C34_Witness ==
    /\ FetchOver
    /\ Cardinality(DOMAIN bstate) = 3
    /\ bresult[1].error
    /\ ~bresult[2].error
    /\ ~bresult[3].error
    /\ \A n \in DOMAIN bstate : RecordedOnce(n)

\* the batches whose worker has returned
DoneBatches == {n \in DOMAIN bstate : bstate[n] = "done"}

Partitioned == fetchPc = "collecting"

\* ceil(n / BATCH_SIZE)
CeilOfBatches(n) == CHOOSE c \in 0..n : c * BATCH_SIZE >= n /\ (c - 1) * BATCH_SIZE < n

\* the batches numbered n..last, one after the other
RECURSIVE Concatenated(_, _)
Concatenated(n, last) ==
    IF n > last THEN <<>>
    ELSE BatchNumbered(stock_codes, n) \o Concatenated(n + 1, last)

\* C32: for every identifier list of length n >= 1, the fetch makes exactly
\* ceil(n / BATCH_SIZE) batches; the batches one after the other in the order of
\* their numbers are the identifier list itself (every identifier in exactly one
\* batch, the order kept); every batch but possibly the last has exactly
\* BATCH_SIZE identifiers and none is empty.
C32_Partitioning ==
    Partitioned =>
        LET count == CeilOfBatches(Len(stock_codes))
        IN  /\ Len(stock_codes) >= 1
            /\ DOMAIN bstate = 1..count
            /\ TotalBatches(stock_codes) = count
            /\ Concatenated(1, count) = stock_codes
            /\ \A n \in 1..(count - 1) : Len(BatchNumbered(stock_codes, n)) = BATCH_SIZE
            /\ Len(BatchNumbered(stock_codes, count)) \in 1..BATCH_SIZE

\* a list whose length is no multiple of BATCH_SIZE is cut into more than one
\* batch, the last one shorter than the others
C32_Witness ==
    /\ Partitioned
    /\ Cardinality(DOMAIN bstate) > 1
    /\ Len(stock_codes) % BATCH_SIZE # 0
    /\ Len(BatchNumbered(stock_codes, Cardinality(DOMAIN bstate))) < BATCH_SIZE

(***************************************************************************)
(* Part 3: JSON values, the range filter (stock_filter.py)                 *)
(***************************************************************************)

\* The longest record list given to the filter and, as the primary list, to the merge.
MaxStocks == 2

\* JSON values as Python holds them.  A string is the sequence of its characters.
Num(n) == [num |-> n]
NaN == [nan |-> TRUE]
Str(s) == [str |-> s]
Bool(b) == [bool |-> b]
Null == [null |-> TRUE]
Dict(f) == [dict |-> f]
List(s) == [list |-> s]

IsNum(v) == DOMAIN v = {"num"}
IsStr(v) == DOMAIN v = {"str"}
IsBool(v) == DOMAIN v = {"bool"}
IsDict(v) == DOMAIN v = {"dict"}
IsList(v) == DOMAIN v = {"list"}

\* dict.get(key): None when the key is missing
Get(d, key) == IF key \in DOMAIN d THEN d[key] ELSE Null

Digits == <<"0", "1", "2", "3", "4", "5", "6", "7", "8", "9">>
IsDigit(c) == \E i \in 1..Len(Digits) : Digits[i] = c
DigitVal(c) == (CHOOSE i \in 1..Len(Digits) : Digits[i] = c) - 1

RECURSIVE DigitsValue(_, _)
DigitsValue(s, acc) ==
    IF s = <<>> THEN acc ELSE DigitsValue(Tail(s), 10 * acc + DigitVal(Head(s)))

ValueError == [err |-> "ValueError"]
TypeError == [err |-> "TypeError"]

\* float(s) of a string without blanks: an optional sign, then "nan" or digits
ParseFloat(s) ==
    LET signed == s # <<>> /\ Head(s) \in {"-", "+"}
        body == IF signed THEN Tail(s) ELSE s
    IN IF body = <<"n", "a", "n">> THEN NaN
       ELSE IF body # <<>> /\ \A i \in 1..Len(body) : IsDigit(body[i])
            THEN Num(IF signed /\ Head(s) = "-"
                     THEN 0 - DigitsValue(body, 0) ELSE DigitsValue(body, 0))
       ELSE ValueError

\* float(metric_value): a number or NaN, or the exception raised
PyFloat(v) ==
    IF IsNum(v) THEN v
    ELSE IF v = NaN THEN NaN
    ELSE IF IsBool(v) THEN Num(IF v.bool THEN 1 ELSE 0)
    ELSE IF IsStr(v) THEN ParseFloat(v.str)
    ELSE TypeError

\* a < b and a > b on floats: False when either side is NaN
Lt(a, b) == IsNum(a) /\ IsNum(b) /\ a.num < b.num
Gt(a, b) == IsNum(a) /\ IsNum(b) /\ a.num > b.num

\* one round of the loop over metrics_filter.items(): FALSE when the round
\* sets matches_all = False and breaks
RangeHolds(stock, metric_name, value_range) ==
    IF ~(IsList(value_range) /\ Len(value_range.list) = 2) THEN TRUE
    ELSE LET min_value == value_range.list[1]
             max_value == value_range.list[2]
             metric_value == Get(stock, metric_name)
         IN IF metric_value = Null THEN FALSE
            ELSE LET f == PyFloat(metric_value)
                 IN IF f \in {ValueError, TypeError} THEN FALSE
                    ELSE IF min_value # Null /\ Lt(f, min_value) THEN FALSE
                    ELSE IF max_value # Null /\ Gt(f, max_value) THEN FALSE
                    ELSE TRUE

\* matches_all after the loop over the filter entries
MatchesAll(stock, metrics_filter) ==
    \A metric_name \in DOMAIN metrics_filter :
        RangeHolds(stock, metric_name, metrics_filter[metric_name])

\* the loop over stocks_data: filtered_stocks
RECURSIVE FilteredStocks(_, _)
FilteredStocks(stocks_data, metrics_filter) ==
    IF stocks_data = <<>> THEN <<>>
    ELSE (IF MatchesAll(Head(stocks_data), metrics_filter)
          THEN <<Head(stocks_data)>> ELSE <<>>)
         \o FilteredStocks(Tail(stocks_data), metrics_filter)

\* filter_stocks_by_metrics(stocks_data, metrics_filter)
filter_stocks_by_metrics(stocks_data, metrics_filter) ==
    IF stocks_data = <<>> \/ DOMAIN metrics_filter = {}
    THEN stocks_data
    ELSE FilteredStocks(stocks_data, metrics_filter)

\* The values a record holds under pe_ttm (missing: the key is absent).
PeValues ==
    {Null, Num(5), Num(10), Num(15), Num(20), Num(25), NaN,
     Str(<<"1", "5">>), Str(<<"x">>), Str(<<"n", "a", "n">>),
     Bool(TRUE), Dict(<<>>)}
PbValues == {Num(1)}

StockCodeAt == <<"A", "B", "C", "D">>

\* the records the filter is given: the i-th has the i-th code
FilterRecords(i) ==
    {r \in [{"stockCode", "pe_ttm", "pb"} -> PeValues \cup PbValues \cup {Str(<<StockCodeAt[i]>>)}] :
        /\ r["stockCode"] = Str(<<StockCodeAt[i]>>)
        /\ r["pe_ttm"] \in PeValues
        /\ r["pb"] \in PbValues}
    \cup
    {r \in [{"stockCode", "pe_ttm"} -> PeValues \cup {Str(<<StockCodeAt[i]>>)}] :
        /\ r["stockCode"] = Str(<<StockCodeAt[i]>>)
        /\ r["pe_ttm"] \in PeValues}
    \cup
    {r \in [{"stockCode", "pb"} -> PbValues \cup {Str(<<StockCodeAt[i]>>)}] :
        /\ r["stockCode"] = Str(<<StockCodeAt[i]>>)
        /\ r["pb"] \in PbValues}
    \cup {[k \in {"stockCode"} |-> Str(<<StockCodeAt[i]>>)]}

FilterInputs ==
    UNION {{s \in [1..n -> UNION {FilterRecords(i) : i \in 1..n}] :
                \A i \in 1..n : s[i] \in FilterRecords(i)} : n \in 0..MaxStocks}

\* [min, max] ranges, and ranges that are no 2-element array
PeRanges ==
    {List(<<Num(10), Num(20)>>), List(<<Null, Num(20)>>), List(<<Num(10), Null>>),
     List(<<Null, Null>>), List(<<Num(10)>>), Num(7)}
PbRanges == {List(<<Num(2), Null>>), List(<<Null, Num(2)>>)}

FilterSpecs ==
    {<<>>}
    \cup {[k \in {"pe_ttm"} |-> r] : r \in PeRanges}
    \cup {[k \in {"pb"} |-> r] : r \in PbRanges}
    \cup {[k \in {"pe_ttm", "pb"} |-> IF k = "pe_ttm" THEN r ELSE q] :
            r \in PeRanges, q \in PbRanges}

InitFilter ==
    /\ ConfigIdle
    /\ CacheIdle
    /\ FetchIdle
    /\ ReqIdle
    /\ StocksIdle
    /\ ThreadsIdle
    /\ args \in [stocks_data : FilterInputs, metrics_filter : FilterSpecs]
    /\ result = Pending

FilterStocks ==
    /\ result = Pending
    /\ "metrics_filter" \in DOMAIN args
    /\ result' = [value |-> filter_stocks_by_metrics(args.stocks_data, args.metrics_filter)]
    /\ UNCHANGED args
    /\ UNCHANGED nonPureVars

NextFilter == FilterStocks

SpecFilter == InitFilter /\ [][NextFilter]_vars

\* ---- the claim about the filter ----

FilterReturned == "metrics_filter" \in DOMAIN args /\ result # Pending

\* a filter entry whose range is a 2-element array
IsRange(r) == IsList(r) /\ Len(r.list) = 2

\* the record has a non-null value for the metric that is coercible to a
\* number v with (min is null or v >= min) and (max is null or v <= max)
InRange(stock, metric, r) ==
    /\ metric \in DOMAIN stock
    /\ stock[metric] # Null
    /\ LET v == PyFloat(stock[metric])
       IN /\ v \notin {ValueError, TypeError}
          /\ r.list[1] = Null \/ (IsNum(v) /\ v.num >= r.list[1].num)
          /\ r.list[2] = Null \/ (IsNum(v) /\ v.num <= r.list[2].num)

Selected(stock, spec) ==
    \A metric \in DOMAIN spec : IsRange(spec[metric]) => InRange(stock, metric, spec[metric])

\* the value under the metric is NaN once coerced
CoercesToNaN(stock, metric) ==
    metric \in DOMAIN stock /\ stock[metric] # Null /\ PyFloat(stock[metric]) = NaN

\* the returned list is the sub-list, in input order, of the selected records
IsSelection(out, in, spec) ==
    /\ \A i \in 1..Len(out) : \E j \in 1..Len(in) : out[i] = in[j] /\ Selected(in[j], spec)
    /\ \A j \in 1..Len(in) : Selected(in[j], spec) => \E i \in 1..Len(out) : out[i] = in[j]
    /\ \A i, k \in 1..Len(out) :
            i < k => \E j, l \in 1..Len(in) : j < l /\ out[i] = in[j] /\ out[k] = in[l]

\* C7: the filter returns, in input order, exactly those input records that for
\* every filter entry with a 2-element range [min, max] have a non-null value
\* for the metric that is coercible to a number v with (min is null or v >= min)
\* and (max is null or v <= max); entries whose range is not a 2-element array
\* impose no condition, and an empty filter spec returns the input unchanged.
C7_FilterSemantics ==
    FilterReturned =>
        /\ IsSelection(result.value, args.stocks_data, args.metrics_filter)
        /\ DOMAIN args.metrics_filter = {} => result.value = args.stocks_data

\* C7, for the inputs in which no filtered metric of a record coerces to NaN:
\* there the filter returns exactly the selected records, in input order.
C7_FilterSemanticsWithoutNaN ==
    (FilterReturned /\ \A j \in 1..Len(args.stocks_data) :
                            \A metric \in DOMAIN args.metrics_filter :
                                ~CoercesToNaN(args.stocks_data[j], metric)) =>
        /\ IsSelection(result.value, args.stocks_data, args.metrics_filter)
        /\ DOMAIN args.metrics_filter = {} => result.value = args.stocks_data

\* a call that kept one record and dropped another
C7_Witness ==
    /\ FilterReturned
    /\ Len(args.stocks_data) = 2
    /\ Len(result.value) = 1
    /\ result.value[1] = args.stocks_data[2]
    /\ DOMAIN args.metrics_filter = {"pe_ttm", "pb"}

(***************************************************************************)
(* Part 4: merging the fundamental and the financial-statement records     *)
(* (api_handler.py, StockAPIHandler.filter_stocks_by_metrics)              *)
(***************************************************************************)

PrimaryWinsMutant(stock, fs) ==
    [k \in DOMAIN stock \cup DOMAIN fs |-> IF k \in DOMAIN stock THEN stock[k] ELSE fs[k]]

\* {**stock, **fs}: the keys of both, the value of fs where both have the key
Overlay(stock, fs) ==
    [k \in DOMAIN stock \cup DOMAIN fs |-> IF k \in DOMAIN fs THEN fs[k] ELSE stock[k]]

\* {stock.get('stockCode'): stock for stock in fs_stocks_data}: a later
\* record replaces an earlier one with the same code
fs_data_map(fs_stocks_data) ==
    [c \in {Get(fs_stocks_data[j], "stockCode") : j \in 1..Len(fs_stocks_data)} |->
        LET last == CHOOSE j \in 1..Len(fs_stocks_data) :
                        /\ Get(fs_stocks_data[j], "stockCode") = c
                        /\ \A l \in (j + 1)..Len(fs_stocks_data) :
                                Get(fs_stocks_data[l], "stockCode") # c
        IN fs_stocks_data[last]]

\* merged_data: the loop over stocks_data
merged_data(stocks_data, fs_stocks_data) ==
    [i \in 1..Len(stocks_data) |->
        LET stock == stocks_data[i]
            stock_code == Get(stock, "stockCode")
        IN IF stock_code \in DOMAIN fs_data_map(fs_stocks_data)
           THEN Overlay(stock, fs_data_map(fs_stocks_data)[stock_code])
           ELSE stock]

\* the secondary records whose code no primary record has
RECURSIVE SecondaryOnly(_, _)
SecondaryOnly(stocks_data, fs_stocks_data) ==
    IF fs_stocks_data = <<>> THEN <<>>
    ELSE (IF \E i \in 1..Len(stocks_data) :
                Get(stocks_data[i], "stockCode") = Get(Head(fs_stocks_data), "stockCode")
          THEN <<>> ELSE <<Head(fs_stocks_data)>>)
         \o SecondaryOnly(stocks_data, Tail(fs_stocks_data))

OuterJoinMutant(stocks_data, fs_stocks_data) ==
    IF stocks_data # <<>> /\ fs_stocks_data # <<>>
    THEN merged_data(stocks_data, fs_stocks_data)
         \o SecondaryOnly(stocks_data, fs_stocks_data)
    ELSE IF fs_stocks_data # <<>> THEN fs_stocks_data
    ELSE stocks_data

\* stocks_data after the merge block
MergeByCode(stocks_data, fs_stocks_data) ==
    IF stocks_data # <<>> /\ fs_stocks_data # <<>>
    THEN merged_data(stocks_data, fs_stocks_data)
    ELSE IF fs_stocks_data # <<>> THEN fs_stocks_data
    ELSE stocks_data

\* the records of a set: a code and some of the fields
RecordsWith(codes, fields) ==
    {[k \in {"stockCode"} \cup DOMAIN f |-> IF k = "stockCode" THEN Str(<<c>>) ELSE f[k]] :
        c \in codes, f \in fields}

PrimaryFields ==
    {<<>>, [k \in {"x"} |-> Num(1)], [k \in {"y"} |-> Num(5)],
     [k \in {"x", "y"} |-> IF k = "x" THEN Num(1) ELSE Num(5)]}
SecondaryFields ==
    {<<>>, [k \in {"x"} |-> Num(2)], [k \in {"z"} |-> Num(3)],
     [k \in {"x", "z"} |-> IF k = "x" THEN Num(2) ELSE Num(3)]}

PrimaryRecords == RecordsWith({"A", "B"}, PrimaryFields)
SecondaryRecords == RecordsWith({"A", "C"}, SecondaryFields)

PrimaryLists == UNION {[1..n -> PrimaryRecords] : n \in 0..MaxStocks}
SecondaryLists == UNION {[1..n -> SecondaryRecords] : n \in 0..2}

InitMerge ==
    /\ ConfigIdle
    /\ CacheIdle
    /\ FetchIdle
    /\ ReqIdle
    /\ StocksIdle
    /\ ThreadsIdle
    /\ args \in [stocks_data : PrimaryLists, fs_stocks_data : SecondaryLists]
    /\ result = Pending

MergeStocks ==
    /\ result = Pending
    /\ "fs_stocks_data" \in DOMAIN args
    /\ result' = [value |-> MergeByCode(args.stocks_data, args.fs_stocks_data)]
    /\ UNCHANGED args
    /\ UNCHANGED nonPureVars

NextMerge == MergeStocks

SpecMerge == InitMerge /\ [][NextMerge]_vars

\* ---- the claims about the merge ----

MergeReturned == "fs_stocks_data" \in DOMAIN args /\ result # Pending

BothPresent == args.stocks_data # <<>> /\ args.fs_stocks_data # <<>>

\* secondary record j has the stockCode of primary record i
CodesMatch(i, j) ==
    /\ "stockCode" \in DOMAIN args.stocks_data[i]
    /\ "stockCode" \in DOMAIN args.fs_stocks_data[j]
    /\ args.stocks_data[i]["stockCode"] = args.fs_stocks_data[j]["stockCode"]

HasMatch(i) == \E j \in 1..Len(args.fs_stocks_data) : CodesMatch(i, j)

\* m has the keys of p and s, the value of s where s has the key, else of p
IsUnionSecondaryFirst(m, p, s) ==
    /\ DOMAIN m = DOMAIN p \cup DOMAIN s
    /\ \A k \in DOMAIN s : m[k] = s[k]
    /\ \A k \in DOMAIN p \ DOMAIN s : m[k] = p[k]

\* C8: for every primary record whose stockCode matches a secondary record, the
\* merged record has exactly the union of both records' keys, with the secondary
\* record's value on every key present in both and the primary's value on keys
\* only the primary has.
C8_MergePrecedence ==
    (MergeReturned /\ BothPresent) =>
        /\ Len(result.value) = Len(args.stocks_data)
        /\ \A i \in 1..Len(args.stocks_data) :
                HasMatch(i) =>
                    \E j \in 1..Len(args.fs_stocks_data) :
                        /\ CodesMatch(i, j)
                        /\ IsUnionSecondaryFirst(result.value[i], args.stocks_data[i],
                                                 args.fs_stocks_data[j])

\* a merge in which the two records disagree on x, and each has a key of its own
C8_Witness ==
    /\ MergeReturned
    /\ BothPresent
    /\ \E i \in 1..Len(args.stocks_data) :
            \E j \in 1..Len(args.fs_stocks_data) :
                /\ CodesMatch(i, j)
                /\ DOMAIN args.stocks_data[i] = {"stockCode", "x", "y"}
                /\ DOMAIN args.fs_stocks_data[j] = {"stockCode", "x", "z"}
                /\ result.value[i]["x"] = Num(2)
                /\ result.value[i]["y"] = Num(5)
                /\ result.value[i]["z"] = Num(3)

\* C9: when both record sets are non-empty the merged list has exactly one
\* record per primary record, in primary order; primary records without a
\* matching secondary code pass through unchanged and secondary-only records
\* are absent from the result; when the primary set is empty the result is the
\* secondary set verbatim.
C9_MergeShape ==
    MergeReturned =>
        /\ BothPresent =>
            /\ Len(result.value) = Len(args.stocks_data)
            /\ \A i \in 1..Len(args.stocks_data) :
                    /\ Get(result.value[i], "stockCode") = Get(args.stocks_data[i], "stockCode")
                    /\ DOMAIN args.stocks_data[i] \subseteq DOMAIN result.value[i]
                    /\ ~HasMatch(i) => result.value[i] = args.stocks_data[i]
            /\ \A j \in 1..Len(args.fs_stocks_data) :
                    (\A i \in 1..Len(args.stocks_data) : ~CodesMatch(i, j)) =>
                        \A i \in 1..Len(result.value) :
                            Get(result.value[i], "stockCode")
                                # Get(args.fs_stocks_data[j], "stockCode")
        /\ args.stocks_data = <<>> => result.value = args.fs_stocks_data

\* a merge of two primary records, the second matched and the first not, with
\* a secondary record that no primary record matches
C9_Witness ==
    /\ MergeReturned
    /\ Len(args.stocks_data) = 2
    /\ Len(args.fs_stocks_data) = 2
    /\ ~HasMatch(1)
    /\ HasMatch(2)
    /\ \E j \in 1..2 : \A i \in 1..2 : ~CodesMatch(i, j)
    /\ result.value[1] = args.stocks_data[1]
    /\ result.value[2] # args.stocks_data[2]

\* the primary set is empty and the secondary set is returned
C9_WitnessSecondaryOnly ==
    /\ MergeReturned
    /\ args.stocks_data = <<>>
    /\ Len(result.value) = 2

(***************************************************************************)
(* Part 5: extract_nested_field_value (api_handler.py)                     *)
(***************************************************************************)

\* The longest field key, in characters.
MaxPathLen == 3

\* Python's truth value of a JSON value
Truthy(v) ==
    /\ v # Null
    /\ v # Num(0)
    /\ v # Bool(FALSE)
    /\ IsStr(v) => v.str # <<>>
    /\ IsDict(v) => DOMAIN v.dict # {}
    /\ IsList(v) => v.list # <<>>

\* field_key.split('.'): the pieces between the dots, empty pieces included
RECURSIVE SplitFrom(_, _)
SplitFrom(s, piece) ==
    IF s = <<>> THEN <<piece>>
    ELSE IF Head(s) = "." THEN <<piece>> \o SplitFrom(Tail(s), <<>>)
    ELSE SplitFrom(Tail(s), Append(piece, Head(s)))

Split(s) == SplitFrom(s, <<>>)

RECURSIVE KeepLastMutant(_, _)
KeepLastMutant(value, keys) ==
    IF keys = <<>> THEN value
    ELSE IF Truthy(value) /\ IsDict(value) /\ Head(keys) \in DOMAIN value.dict
         THEN KeepLastMutant(value.dict[Head(keys)], Tail(keys))
         ELSE value

\* the loop over keys; None is the JSON null
RECURSIVE Walk(_, _)
Walk(value, keys) ==
    IF keys = <<>> THEN value
    ELSE IF Truthy(value) /\ IsDict(value) /\ Head(keys) \in DOMAIN value.dict
         THEN Walk(value.dict[Head(keys)], Tail(keys))
         ELSE Null

extract_nested_field_value(obj, field_key) ==
    IF ~Truthy(obj) \/ field_key = <<>> THEN Null
    ELSE Walk(obj, Split(field_key))

\* Keys are strings of one character, or the empty string.
KeyA == <<"a">>
KeyB == <<"b">>
Leaves == {Num(0), Num(2038), Null}

\* the mappings over some of the keys a and b with values in vals
DictsOver(vals) ==
    {Dict(f) : f \in UNION {[ks -> vals] : ks \in SUBSET {KeyA, KeyB}}}

\* mappings with an empty key
EmptyKeyDicts ==
    {Dict([k \in {<<>>} |-> Num(2038)]),
     Dict([k \in {KeyA} |-> Dict([j \in {<<>>} |-> Num(2038)])]),
     Dict([k \in {<<>>, KeyA} |-> IF k = <<>> THEN Dict([j \in {KeyA} |-> Num(2038)])
                                              ELSE Num(0)])}

Objects ==
    DictsOver(Leaves \cup DictsOver(Leaves)) \cup EmptyKeyDicts
    \cup {Null, Num(2038), List(<<Num(2038)>>)}

PathChars == {"a", "b", "."}
FieldKeys == UNION {[1..n -> PathChars] : n \in 0..MaxPathLen}

InitExtract ==
    /\ ConfigIdle
    /\ CacheIdle
    /\ FetchIdle
    /\ ReqIdle
    /\ StocksIdle
    /\ ThreadsIdle
    /\ args \in [obj : Objects, field_key : FieldKeys]
    /\ result = Pending

ExtractNested ==
    /\ result = Pending
    /\ "field_key" \in DOMAIN args
    /\ result' = [value |-> extract_nested_field_value(args.obj, args.field_key)]
    /\ UNCHANGED args
    /\ UNCHANGED nonPureVars

NextExtract == ExtractNested

SpecExtract == InitExtract /\ [][NextExtract]_vars

\* ---- the claim about the extraction ----

ExtractReturned == "field_key" \in DOMAIN args /\ result # Pending

Missing == [missing |-> TRUE]

\* the positions of the dots of the path, with 0 before and Len + 1 behind it
Cuts(path) == {0, Len(path) + 1} \cup {i \in 1..Len(path) : path[i] = "."}

\* the k-th dot-separated key of the path
KeyOf(path, k) ==
    LET from == CHOOSE c \in Cuts(path) : Cardinality({d \in Cuts(path) : d < c}) = k - 1
        to == CHOOSE c \in Cuts(path) : Cardinality({d \in Cuts(path) : d < c}) = k
    IN SubSeq(path, from + 1, to - 1)

KeyCount(path) == Cardinality(Cuts(path)) - 1

\* the value reached after the first k keys, Missing once a value on the way
\* is no mapping or has not the key
Reached(obj, path) ==
    LET at[k \in 0..KeyCount(path)] ==
            IF k = 0 THEN obj
            ELSE IF at[k - 1] = Missing THEN Missing
            ELSE IF IsDict(at[k - 1]) /\ KeyOf(path, k) \in DOMAIN at[k - 1].dict
                 THEN at[k - 1].dict[KeyOf(path, k)]
                 ELSE Missing
    IN at[KeyCount(path)]

\* C10: extract_nested_field_value returns the value reached by walking the
\* dot-separated keys through nested mappings, and returns absent (None) as
\* soon as an intermediate value is missing or is not a mapping, or when the
\* path is empty.
C10_ExtractNested ==
    ExtractReturned =>
        result.value =
            IF args.field_key = <<>> \/ Reached(args.obj, args.field_key) = Missing
            THEN Null
            ELSE Reached(args.obj, args.field_key)

\* a walk of two keys that returned the number it reached
C10_Witness ==
    /\ ExtractReturned
    /\ args.field_key = <<"a", ".", "b">>
    /\ IsDict(args.obj)
    /\ KeyA \in DOMAIN args.obj.dict
    /\ IsDict(args.obj.dict[KeyA])
    /\ KeyB \in DOMAIN args.obj.dict[KeyA].dict
    /\ result.value = Num(2038)

\* a walk that stopped at a value that is no mapping
C10_WitnessAbsent ==
    /\ ExtractReturned
    /\ args.field_key = <<"a", ".", "b">>
    /\ IsDict(args.obj)
    /\ KeyA \in DOMAIN args.obj.dict
    /\ args.obj.dict[KeyA] = Num(2038)
    /\ result.value = Null

(***************************************************************************)
(* Part 6: request_api (fundamental_fetcher.py)                            *)
(***************************************************************************)

\* config.MAX_RETRIES and config.INITIAL_RETRY_DELAY
MAX_RETRIES == 5
INITIAL_RETRY_DELAY == 10

\* The bodies of an HTTP error response.
\*   "json"       a JSON object; fields holds the strings under message, error
\*                and msg, raw is the text of the body
\*   "jsonOther"  JSON, but no object
\*   "text"       no JSON; raw is the text of the body, maybe empty
\*   "unreadable" e.read() raises
ErrorFieldNames == {"message", "error", "msg"}
ErrorFieldValues(k) ==
    IF k = "message" THEN {"", "no token"}
    ELSE IF k = "error" THEN {"", "denied"}
    ELSE {"bad date"}

ErrorBodies ==
    {[kind |-> "json", fields |-> f, raw |-> "{..}"] :
        f \in UNION {{g \in [ks -> {"", "no token", "denied", "bad date"}] :
                        \A k \in ks : g[k] \in ErrorFieldValues(k)} :
                     ks \in SUBSET ErrorFieldNames}}
    \cup {[kind |-> "jsonOther", fields |-> <<>>, raw |-> "[]"],
          [kind |-> "text", fields |-> <<>>, raw |-> "Bad Gateway"],
          [kind |-> "text", fields |-> <<>>, raw |-> ""],
          [kind |-> "unreadable", fields |-> <<>>, raw |-> ""]}

NoBody == [kind |-> "none", fields |-> <<>>, raw |-> ""]

\* What urlopen and read can come to in one attempt.
HttpCodes == {429, 500}
Responses ==
    {[kind |-> "ok", code |-> 200, body |-> NoBody],
     [kind |-> "transport", code |-> 0, body |-> NoBody]}
    \cup {[kind |-> "http", code |-> c, body |-> b] : c \in HttpCodes, b \in ErrorBodies}

\* str(e) of the HTTPError
StatusLine(code) == IF code = 429 THEN "HTTP Error 429" ELSE "HTTP Error 500"
\* f'HTTP {e.code}'
HttpCode(code) == IF code = 429 THEN "HTTP 429" ELSE "HTTP 500"

\* a or b of two strings
OrElse(a, b) == IF a # "" THEN a ELSE b

\* error_data.get(k) or ...: None counts as the empty string
FieldOf(body, k) == IF k \in DOMAIN body.fields THEN body.fields[k] ELSE ""

\* error_message of the except branch
ErrorBeforeMessageMutant(body, code) ==
    IF body.kind = "unreadable" THEN StatusLine(code)
    ELSE IF body.kind = "jsonOther" THEN StatusLine(code)
    ELSE IF body.kind = "json"
         THEN OrElse(FieldOf(body, "error"),
                     OrElse(FieldOf(body, "message"),
                            OrElse(FieldOf(body, "msg"), body.raw)))
    ELSE OrElse(body.raw, StatusLine(code))

ErrorMessage(body, code) ==
    IF body.kind = "unreadable" THEN StatusLine(code)
    ELSE IF body.kind = "jsonOther" THEN StatusLine(code)
    ELSE IF body.kind = "json"
         THEN OrElse(FieldOf(body, "message"),
                     OrElse(FieldOf(body, "error"),
                            OrElse(FieldOf(body, "msg"), body.raw)))
    ELSE OrElse(body.raw, StatusLine(code))

\* api_error.api_error_message
ApiErrorMessage(body, code) == OrElse(ErrorMessage(body, code), HttpCode(code))

\* `retry_delay *= 2`
ConstantDelayMutant(delay) == delay

NextDelay(delay) == 2 * delay

\* `e.code == 429 and attempt < config.MAX_RETRIES - 1`
RetryAnyHttpErrorMutant(code, n) == n < MAX_RETRIES - 1

RetryAfter429(code, n) == code = 429 /\ n < MAX_RETRIES - 1

\* `attempt == config.MAX_RETRIES - 1`
OneMoreAttemptMutant(n) == n = MAX_RETRIES

LastAttempt(n) == n = MAX_RETRIES - 1

InitRequest ==
    /\ ConfigIdle
    /\ CacheIdle
    /\ FetchIdle
    /\ PureIdle
    /\ ReqIdle
    /\ StocksIdle
    /\ ThreadsIdle

\* request_api is called
CallRequest ==
    /\ reqPc = "idle"
    /\ reqPc' = "trying"
    /\ attempt' = 0
    /\ retry_delay' = INITIAL_RETRY_DELAY
    /\ UNCHANGED <<upstream, slept, reqOut>>
    /\ UNCHANGED nonReqVars

\* one round of `for attempt in range(config.MAX_RETRIES)`
Attempt ==
    /\ reqPc = "trying"
    /\ attempt < MAX_RETRIES
    /\ \E r \in Responses :
        /\ upstream' = Append(upstream, [kind |-> r.kind, code |-> r.code])
        /\ IF r.kind = "ok"
           THEN /\ reqPc' = "returned"
                /\ reqOut' = [kind |-> "bytes", tagged |-> FALSE, message |-> ""]
                /\ UNCHANGED <<attempt, retry_delay, slept>>
           ELSE IF r.kind = "http"
           THEN IF RetryAfter429(r.code, attempt)
                THEN /\ slept' = Append(slept, retry_delay)
                     /\ retry_delay' = NextDelay(retry_delay)
                     /\ attempt' = attempt + 1
                     /\ UNCHANGED <<reqPc, reqOut>>
                ELSE /\ reqPc' = "raised"
                     /\ reqOut' = [kind |-> "api_error", tagged |-> TRUE,
                                   message |-> ApiErrorMessage(r.body, r.code),
                                   body |-> r.body]
                     /\ UNCHANGED <<attempt, retry_delay, slept>>
           ELSE IF LastAttempt(attempt)
                THEN /\ reqPc' = "raised"
                     /\ reqOut' = [kind |-> "transport", tagged |-> FALSE, message |-> ""]
                     /\ UNCHANGED <<attempt, retry_delay, slept>>
                ELSE /\ slept' = Append(slept, retry_delay)
                     /\ retry_delay' = NextDelay(retry_delay)
                     /\ attempt' = attempt + 1
                     /\ UNCHANGED <<reqPc, reqOut>>
    /\ UNCHANGED nonReqVars

NextRequest == CallRequest \/ Attempt

SpecRequest == InitRequest /\ [][NextRequest]_vars

\* ---- the claims about the request ----

RequestEnded == reqPc \in {"returned", "raised"}

\* C11: one call of request_api makes at most MAX_RETRIES upstream attempts in
\* total, whatever mix of HTTP 429 and transport failures occurs, makes no
\* further attempt after the first successful response, and always ends by
\* either returning the response bytes or raising: the loop is never left
\* without one of the two.
C11_RetryBound ==
    /\ Len(upstream) <= MAX_RETRIES
    /\ \A i \in 1..Len(upstream) : upstream[i].kind = "ok" => i = Len(upstream)
    /\ (upstream # <<>> /\ upstream[Len(upstream)].kind = "ok") =>
            (reqPc = "returned" /\ reqOut.kind = "bytes")
    /\ reqPc = "trying" => (attempt < MAX_RETRIES /\ Len(upstream) = attempt)
    /\ Len(upstream) = MAX_RETRIES => RequestEnded
    /\ reqPc = "returned" => reqOut.kind = "bytes"

\* MAX_RETRIES attempts were made, of HTTP 429 and transport failures mixed
C11_Witness ==
    /\ RequestEnded
    /\ Len(upstream) = MAX_RETRIES
    /\ \E i \in 1..Len(upstream) : upstream[i].kind = "transport"
    /\ \E i \in 1..Len(upstream) : upstream[i].code = 429
    /\ Len(slept) = MAX_RETRIES - 1

\* the last answer of the upstream
LastAnswer == upstream[Len(upstream)]

\* the retries are used up and the last attempt was rate-limited or failed in
\* transport
Exhausted ==
    /\ RequestEnded
    /\ Len(upstream) = MAX_RETRIES
    /\ \/ LastAnswer.kind = "transport"
       \/ LastAnswer.kind = "http" /\ LastAnswer.code = 429

\* C12: when a request is still rate-limited (HTTP 429) on its last permitted
\* attempt, or still failing at transport level after the last attempt, the
\* error raised is a generic failure: it carries no api_error_message.
C12_ExhaustedIsGeneric ==
    Exhausted => (reqPc = "raised" /\ ~reqOut.tagged)

\* C12, the half about transport failures: a request still failing at
\* transport level after the last attempt raises an error without
\* api_error_message.
C12_TransportIsGeneric ==
    (Exhausted /\ LastAnswer.kind = "transport") => (reqPc = "raised" /\ ~reqOut.tagged)

\* the string the error body gives: the first non-empty of message, error and
\* msg of a JSON object, else the text of the body, else the status line
ExtractedMessage(body, code) ==
    CASE body.kind = "json" /\ FieldOf(body, "message") # "" -> body.fields["message"]
      [] body.kind = "json" /\ FieldOf(body, "message") = "" /\ FieldOf(body, "error") # ""
            -> body.fields["error"]
      [] body.kind = "json" /\ FieldOf(body, "message") = "" /\ FieldOf(body, "error") = ""
            /\ FieldOf(body, "msg") # "" -> body.fields["msg"]
      [] body.kind = "json" /\ FieldOf(body, "message") = "" /\ FieldOf(body, "error") = ""
            /\ FieldOf(body, "msg") = "" -> body.raw
      [] body.kind = "text" /\ body.raw # "" -> body.raw
      [] OTHER -> StatusLine(code)

\* C13: a non-429 HTTP error response is never retried: the request fails on
\* that attempt with an error that carries the extracted message as
\* api_error_message, with no wait and no further upstream attempt.
C13_NoRetryOfHttpError ==
    \A i \in 1..Len(upstream) :
        (upstream[i].kind = "http" /\ upstream[i].code # 429) =>
            /\ i = Len(upstream)
            /\ reqPc = "raised"
            /\ reqOut.tagged
            /\ reqOut.message = ExtractedMessage(reqOut.body, upstream[i].code)
            /\ Len(slept) = i - 1

\* an HTTP 500 with a JSON error body on the third attempt, after two waits
C13_Witness ==
    /\ reqPc = "raised"
    /\ Len(upstream) = 3
    /\ LastAnswer.kind = "http" /\ LastAnswer.code = 500
    /\ reqOut.body.kind = "json"
    /\ reqOut.message = "denied"
    /\ slept = <<INITIAL_RETRY_DELAY, 2 * INITIAL_RETRY_DELAY>>

\* 2^n
RECURSIVE TwoToThe(_)
TwoToThe(n) == IF n = 0 THEN 1 ELSE 2 * TwoToThe(n - 1)

\* C33: within one request, the wait before the k-th retry (k = 1, 2, ...) is
\* INITIAL_RETRY_DELAY * 2^(k-1); the same doubling sequence of delays is shared
\* by the retries after HTTP 429 and the retries after transport failures, a
\* wait occurs only when another attempt follows, and the number of waits is at
\* most MAX_RETRIES - 1.
C33_Backoff ==
    /\ \A k \in 1..Len(slept) : slept[k] = INITIAL_RETRY_DELAY * TwoToThe(k - 1)
    /\ Len(slept) <= MAX_RETRIES - 1
    /\ reqPc = "trying" => Len(upstream) = Len(slept)
    /\ RequestEnded => Len(upstream) = Len(slept) + 1
    /\ \A k \in 1..Len(slept) :
            \/ upstream[k].kind = "transport"
            \/ upstream[k].kind = "http" /\ upstream[k].code = 429

\* four waits of one request, after HTTP 429 and transport failures in turn;
\* the fifth attempt ends the request
C33_Witness ==
    /\ RequestEnded
    /\ Len(slept) = MAX_RETRIES - 1
    /\ slept[Len(slept)] = INITIAL_RETRY_DELAY * TwoToThe(MAX_RETRIES - 2)
    /\ upstream[1].kind = "http"
    /\ upstream[2].kind = "transport"
    /\ upstream[3].kind = "http"
    /\ upstream[4].kind = "transport"

\* the request ended on a non-429 HTTP error response
FailedOnHttpError ==
    /\ reqPc = "raised"
    /\ upstream # <<>>
    /\ LastAnswer.kind = "http"
    /\ LastAnswer.code # 429

\* the fields of the error body in the order they are looked at
ErrorFieldOrder == <<"message", "error", "msg">>

\* the places in ErrorFieldOrder of the fields the body has
PresentFields(body) == {i \in DOMAIN ErrorFieldOrder : ErrorFieldOrder[i] \in DOMAIN body.fields}

\* the places in ErrorFieldOrder of the fields the body has with a non-empty
\* value
NonEmptyFields(body) == {i \in PresentFields(body) : body.fields[ErrorFieldOrder[i]] # ""}

\* the value of the first field of the places, or the text of the body when
\* there is no place
FirstOf(places, body) ==
    IF places = {} THEN body.raw
    ELSE body.fields[ErrorFieldOrder[CHOOSE i \in places : \A j \in places : i <= j]]

\* C30: for a non-429 HTTP error whose body is a JSON object, the extracted
\* upstream message is the value of message if present, else of error, else of
\* msg; if none is present it is the raw decoded body, and if the body cannot
\* be used it is the HTTP status line.
C30_MessagePriority ==
    FailedOnHttpError =>
        /\ reqOut.body.kind = "json" =>
                reqOut.message = FirstOf(PresentFields(reqOut.body), reqOut.body)
        /\ reqOut.body.kind = "unreadable" => reqOut.message = StatusLine(LastAnswer.code)

\* C30, with a field counted only when its value is not empty: for a non-429
\* HTTP error whose body is a JSON object, the extracted upstream message is the
\* value of the first of message, error and msg that is present with a
\* non-empty value; if there is none it is the raw decoded body, and if the body
\* cannot be read it is the HTTP status line.
C30_NonEmptyMessagePriority ==
    FailedOnHttpError =>
        /\ reqOut.body.kind = "json" =>
                reqOut.message = FirstOf(NonEmptyFields(reqOut.body), reqOut.body)
        /\ reqOut.body.kind = "unreadable" => reqOut.message = StatusLine(LastAnswer.code)

\* an HTTP 500 whose JSON body has an empty message, and error and msg with
\* values: the message is the value of error
C30_Witness ==
    /\ FailedOnHttpError
    /\ reqOut.body.kind = "json"
    /\ DOMAIN reqOut.body.fields = {"message", "error", "msg"}
    /\ reqOut.body.fields["message"] = ""
    /\ reqOut.body.fields["error"] = "denied"
    /\ reqOut.message = "denied"

(***************************************************************************)
(* Part 7: the check of the response body in get_stock_fundamentals and    *)
(* get_stock_fs_data (api_handler.py)                                      *)
(***************************************************************************)

\* str.lower() on the letters of the model
LowerChar(c) ==
    CASE c = "S" -> "s" [] c = "U" -> "u" [] c = "C" -> "c" [] c = "E" -> "e"
      [] c = "D" -> "d" [] OTHER -> c
Lower(s) == [i \in 1..Len(s) |-> LowerChar(s[i])]

\* the decimal digits of a natural number
RECURSIVE NatDigits(_)
NatDigits(n) ==
    IF n < 10 THEN <<Digits[n + 1]>> ELSE Append(NatDigits(n \div 10), Digits[(n % 10) + 1])

\* str(value) of a string or a natural number
PyStr(v) == IF IsStr(v) THEN v.str ELSE NatDigits(v.num)

SuccessWord == <<"s", "u", "c", "c", "e", "s", "s">>

\* The values under error and message of a body.
FieldValues ==
    {Null, Str(<<>>), Str(<<"s", "u", "c", "c", "e", "s", "s">>), Str(<<"S", "u", "c", "c", "e", "s", "s">>), Str(<<"S", "U", "C", "C", "E", "S", "S">>),
     Str(<<"d", "e", "n", "i", "e", "d">>), Num(0), Num(17)}

\* The values under data of a body: lists of records, and null.
DataValues == {List(<<>>), List(<<[stockCode |-> Str(<<"A">>)]>>), Null}

\* the JSON objects with some of data, error and message
ResponseBodies ==
    {b \in UNION {[ks -> FieldValues \cup DataValues] : ks \in SUBSET {"data", "error", "message"}} :
        \A k \in DOMAIN b : IF k = "data" THEN b[k] \in DataValues ELSE b[k] \in FieldValues}

NoErrorMsg == [none |-> TRUE]

\* `if error_value and str(error_value).lower() != 'success'`
IsFailureValue(v) == Truthy(v) /\ Lower(PyStr(v)) # SuccessWord

\* error_msg of a body without 'data': the `if 'error' in result ... elif
\* 'message' in result` block
ErrorMsgOf(body) ==
    IF "error" \in DOMAIN body
    THEN (IF IsFailureValue(body["error"]) THEN Str(PyStr(body["error"])) ELSE NoErrorMsg)
    ELSE IF "message" \in DOMAIN body
         THEN (IF IsFailureValue(body["message"]) THEN Str(PyStr(body["message"]))
               ELSE NoErrorMsg)
    ELSE NoErrorMsg

\* what get_stock_fundamentals and get_stock_fs_data do with the parsed body:
\* raise the tagged error, raise the wrapped error of the except branch, or
\* return the body
CheckedBody(body) ==
    IF "data" \notin DOMAIN body /\ ErrorMsgOf(body) # NoErrorMsg
    THEN [kind |-> "api_error", tagged |-> TRUE, message |-> ErrorMsgOf(body)]
    ELSE IF IsList(Get(body, "data")) \/ "data" \notin DOMAIN body
         THEN [kind |-> "returned", tagged |-> FALSE, message |-> NoErrorMsg]
         ELSE [kind |-> "wrapped", tagged |-> FALSE, message |-> NoErrorMsg]

get_stock_fundamentals(body) == CheckedBody(body)
get_stock_fs_data(body) == CheckedBody(body)

InitBody ==
    /\ ConfigIdle
    /\ CacheIdle
    /\ FetchIdle
    /\ ReqIdle
    /\ StocksIdle
    /\ ThreadsIdle
    /\ args \in [body : ResponseBodies, dataset : {"fundamental", "fs"}]
    /\ result = Pending

GetStockFundamentals ==
    /\ result = Pending
    /\ "body" \in DOMAIN args
    /\ args.dataset = "fundamental"
    /\ result' = [value |-> get_stock_fundamentals(args.body)]
    /\ UNCHANGED args
    /\ UNCHANGED nonPureVars

GetStockFsData ==
    /\ result = Pending
    /\ "body" \in DOMAIN args
    /\ args.dataset = "fs"
    /\ result' = [value |-> get_stock_fs_data(args.body)]
    /\ UNCHANGED args
    /\ UNCHANGED nonPureVars

NextBody == GetStockFundamentals \/ GetStockFsData

SpecBody == InitBody /\ [][NextBody]_vars

\* ---- the claim about the body check ----

BodyChecked == "body" \in DOMAIN args /\ result # Pending

\* the value is not "success", whatever the case of its letters
NotSuccess(v) == ~(IsStr(v) /\ Lower(v.str) = <<"s", "u", "c", "c", "e", "s", "s">>)

\* the body has an error or a message field whose value is not "success"
HasFailureField(body) ==
    \E k \in {"error", "message"} : k \in DOMAIN body /\ NotSuccess(body[k])

\* C14: for every response body that parses as a JSON object without a data
\* field, get_stock_fundamentals and get_stock_fs_data raise the tagged error
\* carrying the message whenever the body has an error or a message field whose
\* value is not "success" (case-insensitive); a body that has a data field is
\* never treated as a failure.
C14_LogicalFailure ==
    BodyChecked =>
        /\ ("data" \notin DOMAIN args.body /\ HasFailureField(args.body)) =>
                /\ result.value.kind = "api_error"
                /\ result.value.tagged
        /\ "data" \in DOMAIN args.body => result.value.kind = "returned"

\* C14, for the bodies whose error and message values are non-empty strings or
\* non-zero numbers, with at most one of the two fields, and whose data, if
\* any, is a list: the tagged error is raised exactly for a body without data
\* whose field is not "success", and carries that field's value.
C14_LogicalFailureOneField ==
    (/\ BodyChecked
     /\ ~({"error", "message"} \subseteq DOMAIN args.body)
     /\ \A k \in DOMAIN args.body \ {"data"} : Truthy(args.body[k])
     /\ "data" \in DOMAIN args.body => IsList(args.body["data"])) =>
        /\ ("data" \notin DOMAIN args.body /\ HasFailureField(args.body)) =>
                /\ result.value.kind = "api_error"
                /\ result.value.tagged
                /\ \E k \in DOMAIN args.body : result.value.message = Str(PyStr(args.body[k]))
        /\ "data" \in DOMAIN args.body => result.value.kind = "returned"

(***************************************************************************)
(* Part 8: StockAPIHandler.filter_stocks_by_metrics and the branch of      *)
(* handle_post that calls it (api_handler.py)                              *)
(***************************************************************************)

\* The days the clock of this part spans.
MaxStockDays == 4

\* config.FUNDAMENTAL_CACHE_EXPIRE_DAYS; config.py of the sources sets no
\* FS_CACHE_EXPIRE_DAYS, the financial-statement cache is given the same days
FUNDAMENTAL_CACHE_EXPIRE_DAYS == 3
FS_CACHE_EXPIRE_DAYS == FUNDAMENTAL_CACHE_EXPIRE_DAYS

\* get_cache as a function of the file and the clock: the file it leaves and
\* what it returns; w is the outcome of the write of the sweep
get_cache(f, date, metrics_list, t, w) ==
    LET cache_data == _load_cache(f)
        swept == CleanedStore(cache_data, t)
    IN IF IsEmptyStore(cache_data) THEN [file |-> f, ret |-> Miss, wrote |-> FALSE]
       ELSE IF ExpiredDates(cache_data, t) # {}
            THEN [file |-> _save_cache(f, swept, w),
                  ret |-> IF w = "ok" THEN Lookup(swept, date, metrics_list, t) ELSE Raised,
                  wrote |-> TRUE]
       ELSE [file |-> f, ret |-> Lookup(swept, date, metrics_list, t), wrote |-> FALSE]

\* save_cache as a function of the file and the clock: the file it leaves and
\* whether it raised
save_cache(f, date, data, metrics_list, t, expire_days, w) ==
    LET cache_data == _load_cache(f)
        cache_entry == CacheEntry(data, metrics_list, t + expire_days * SecondsPerDay)
    IN [file |-> _save_cache(f, SetEntry(cache_data, date, cache_entry), w),
        raised |-> w # "ok"]

\* The results of data_fetcher.batch_fetch_data, by the name under which the
\* cache of the model holds them: {"total": len(data), "data": data}.
StockA == Str(<<"A">>)
StockB == Str(<<"B">>)
StockC == Str(<<"C">>)

DatasetOf(name) ==
    CASE name = "F2" ->
            [total |-> 2,
             data |-> <<[stockCode |-> StockA, pe_ttm |-> Num(15), pb |-> Num(1)],
                        [stockCode |-> StockB, pe_ttm |-> Num(30), pb |-> Num(1)]>>]
      [] name = "S2" ->
            [total |-> 2,
             data |-> <<[stockCode |-> StockA, roe |-> Num(12), stockName |-> Str(<<"a">>)],
                        [stockCode |-> StockC, roe |-> Num(5), stockName |-> Str(<<"c">>)]>>]
      [] OTHER -> [total |-> 0, data |-> <<>>]

FundamentalResults == {"F0", "F2"}
FsResults == {"S0", "S2"}
FetchRaised == "raise"
NotFetched == "none"

\* list(metrics_filter.keys())
KeysList(filter) ==
    CHOOSE keys \in [1..Cardinality(DOMAIN filter) -> DOMAIN filter] :
        \A k \in DOMAIN filter : \E i \in DOMAIN keys : keys[i] = k

\* The requests: metricsFilter, date, metricsList, fsMetricsFilter, fsDate and
\* fsMetricsList of the body; None is the empty list, the empty date.
NoFilter == <<>>
PeFilter == [k \in {"pe_ttm"} |-> List(<<Num(10), Num(20)>>)]
RoeFilter == [k \in {"roe"} |-> List(<<Num(10), Null>>)]
TheDate == "2024-01-01"
OtherDate == "2024-01-02"

Request(mf, ml, ff, fd, fl) ==
    [metrics_filter |-> mf, date |-> TheDate, metrics_list |-> ml,
     fs_metrics_filter |-> ff, fs_date |-> fd, fs_metrics_list |-> fl]

Requests ==
    {Request(PeFilter, <<>>, NoFilter, "", <<>>),
     Request(PeFilter, <<"pb", "pe_ttm">>, NoFilter, "", <<>>),
     Request(NoFilter, <<"pb">>, NoFilter, "", <<>>),
     [Request(PeFilter, <<>>, NoFilter, "", <<>>) EXCEPT !.date = OtherDate],
     Request(NoFilter, <<"pe_ttm">>, RoeFilter, TheDate, <<"roe">>),
     Request(NoFilter, <<>>, NoFilter, TheDate, <<"roe">>),
     Request(NoFilter, <<>>, NoFilter, "", <<"roe">>),
     Request(PeFilter, <<>>, RoeFilter, "", <<>>),
     Request(NoFilter, <<>>, RoeFilter, TheDate, <<>>),
     Request(NoFilter, <<>>, NoFilter, "", <<>>)}

\* One dataset's part of the call: the cache is asked, on a miss the data is
\* fetched and, if total > 0, saved.  fetch is the name of the result of
\* batch_fetch_data, or FetchRaised; wSweep and wSave are the outcomes of the
\* writes of get_cache's sweep and of save_cache.
\* `if total > 0`
SaveAlwaysMutant(total) == TRUE

WorthSaving(total) == total > 0

\* the metrics_list argument of the save_cache call: required_metrics, the
\* list the fetch was made with
MetricsOfRecordsMutant(required_metrics, data) ==
    KeysList([k \in DOMAIN data[1] \ {"stockCode"} |-> TRUE])

SavedMetricsList(required_metrics, data) == required_metrics

\* `if cached_data:`
NeverUseCachedMutant(ret) == FALSE

UseCached(ret) == ret.kind = "hit"

DatasetPart(f, date, metrics, t, fetch, expire_days, wSweep, wSave) ==
    LET got == get_cache(f, date, metrics, t, wSweep)
        none == [file |-> got.file, raised |-> "none", data |-> <<>>, hit |-> FALSE,
                 fetched |-> NotFetched, fetchedWith |-> <<>>, put |-> NotFetched,
                 putOk |-> FALSE, sweepWrite |-> got.wrote]
    IN IF got.ret = Raised THEN [none EXCEPT !.raised = "IOError"]
       ELSE IF UseCached(got.ret)
            THEN [none EXCEPT !.hit = TRUE, !.data = DatasetOf(got.ret.data).data]
       ELSE IF fetch = FetchRaised
            THEN [none EXCEPT !.raised = "Exception", !.fetched = FetchRaised,
                              !.fetchedWith = metrics]
       ELSE LET fetched == [none EXCEPT !.fetched = fetch, !.fetchedWith = metrics,
                                        !.data = DatasetOf(fetch).data]
            IN IF WorthSaving(DatasetOf(fetch).total)
               THEN LET saved == save_cache(got.file, date, fetch,
                                            SavedMetricsList(metrics, DatasetOf(fetch).data),
                                            t, expire_days, wSave)
                    IN [fetched EXCEPT !.file = saved.file, !.put = fetch,
                                       !.putOk = ~saved.raised,
                                       !.raised = IF saved.raised THEN "IOError" ELSE "none"]
               ELSE fetched

\* a part that is not asked for
NoPart(f) ==
    [file |-> f, raised |-> "none", data |-> <<>>, hit |-> FALSE,
     fetched |-> NotFetched, fetchedWith |-> <<>>, put |-> NotFetched,
     putOk |-> FALSE, sweepWrite |-> FALSE]

\* process_fs_data of a record for field keys without a dot: the value under
\* the key, unless None, is put under the key
ProcessDotFree(stock, fs_metrics_list) ==
    LET found == {k \in SeqToSet(fs_metrics_list) : Truthy(Dict(stock)) /\ Get(stock, k) # Null}
    IN [k \in DOMAIN stock \cup found |-> stock[k]]

\* _get_stock_name_mapping(): the names of the company directory
StockNameMapping == [c \in {StockA} |-> Str(<<"N", "m">> \o c.str)]

\* the loop that adds stockName to a record
CodeWhenUnmappedMutant(stock) ==
    LET stock_code == Get(stock, "stockCode")
    IN [k \in DOMAIN stock \cup {"stockName"} |->
            IF k # "stockName" THEN stock[k]
            ELSE IF stock_code \in DOMAIN StockNameMapping THEN StockNameMapping[stock_code]
            ELSE stock_code]

WithStockName(stock) ==
    LET stock_code == Get(stock, "stockCode")
        named(v) == [k \in DOMAIN stock \cup {"stockName"} |->
                        IF k = "stockName" THEN v ELSE stock[k]]
    IN IF Truthy(stock_code) /\ stock_code \in DOMAIN StockNameMapping
       THEN named(StockNameMapping[stock_code])
       ELSE IF ~Truthy(Get(stock, "stockName"))
            THEN named(IF Truthy(stock_code) THEN stock_code ELSE Str(<<>>))
       ELSE stock

\* combined_filter: metrics_filter, updated with fs_metrics_filter
FundamentalWinsMutant(metrics_filter, fs_metrics_filter) ==
    PrimaryWinsMutant(metrics_filter, fs_metrics_filter)

CombinedFilter(metrics_filter, fs_metrics_filter) ==
    Overlay(metrics_filter, fs_metrics_filter)

\* filtered_stocks: all records `if not combined_filter`, else those the filter
\* of stock_filter lets through
FilteredByCombined(stocks_data, metrics_filter, fs_metrics_filter) ==
    IF DOMAIN CombinedFilter(metrics_filter, fs_metrics_filter) = {} THEN stocks_data
    ELSE filter_stocks_by_metrics(stocks_data,
                                  CombinedFilter(metrics_filter, fs_metrics_filter))

\* the call from the merge on, given the records of the two datasets
MergeFilterName(req, stocks, fs_stocks) ==
    LET processed == IF fs_stocks # <<>> /\ req.fs_metrics_list # <<>>
                     THEN [i \in 1..Len(fs_stocks) |->
                                ProcessDotFree(fs_stocks[i], req.fs_metrics_list)]
                     ELSE fs_stocks
        stocks_data == MergeByCode(stocks, processed)
        filtered_stocks == FilteredByCombined(stocks_data, req.metrics_filter,
                                              req.fs_metrics_filter)
        named == [i \in 1..Len(filtered_stocks) |-> WithStockName(filtered_stocks[i])]
    IN IF stocks_data = <<>>
       THEN [kind |-> "ValueError", total |-> 0, data |-> <<>>]
       ELSE [kind |-> "returned", total |-> Len(named), data |-> named]

Failed(kind) == [kind |-> kind, total |-> 0, data |-> <<>>]

\* has_fundamental_filter or has_fundamental_metrics
NeedsFundamental(req) == DOMAIN req.metrics_filter # {} \/ req.metrics_list # <<>>
\* has_fs_metrics
NeedsFs(req) == req.fs_metrics_list # <<>>
\* required_metrics
RequiredMetrics(req) ==
    IF req.metrics_list # <<>> THEN req.metrics_list ELSE KeysList(req.metrics_filter)

\* handle_post before the call: `if fs_metrics_filter and not fs_date` it sends
\* 400 and makes no call
Accepted(req) == ~(DOMAIN req.fs_metrics_filter # {} /\ req.fs_date = "")

\* the response handle_post sends for what the call returned or raised
StatusOf(kind) ==
    CASE kind = "returned" -> 200
      [] kind \in {"ValueError", "rejected"} -> 400
      [] OTHER -> 500

\* whether get_cache of the file makes a sweep write at t, whether it misses
SweepWrites(used, f, t) ==
    IF used /\ ~IsEmptyStore(_load_cache(f)) /\ ExpiredDates(_load_cache(f), t) # {}
    THEN WriteOutcomes ELSE {"ok"}
FetchChoices(used, f, date, metrics, t, w, fetchable) ==
    IF used /\ get_cache(f, date, metrics, t, w).ret # Raised
            /\ ~UseCached(get_cache(f, date, metrics, t, w).ret)
    THEN fetchable \cup {FetchRaised} ELSE {NotFetched}
SaveWrites(fetch) ==
    IF fetch \notin {FetchRaised, NotFetched} /\ WorthSaving(DatasetOf(fetch).total)
    THEN WriteOutcomes ELSE {"ok"}

InitStocks ==
    /\ ConfigIdle
    /\ file = AbsentFile /\ now = 1 /\ cacheOp = IdleOp /\ prevOp = IdleOp
    /\ FetchIdle
    /\ PureIdle
    /\ ReqIdle
    /\ fsFile = AbsentFile
    /\ stocksOp = NoCall
    /\ ThreadsIdle

\* the response is sent; the next request is a new one
Respond ==
    /\ stocksOp # NoCall
    /\ stocksOp' = NoCall
    /\ UNCHANGED <<file, now, fsFile>>
    /\ UNCHANGED nonStocksVars

\* a day passes between two calls
PassDay ==
    /\ stocksOp = NoCall
    /\ now \div SecondsPerDay < MaxStockDays
    /\ now' = now + SecondsPerDay
    /\ UNCHANGED <<file, fsFile, stocksOp>>
    /\ UNCHANGED nonStocksVars

\* one POST with metricsFilter: handle_post calls filter_stocks_by_metrics and
\* sends what it returns or the error it raises.  codes: _get_stock_codes()
\* gave codes.
FilterStocksCall(req, codes) ==
    LET needF == Accepted(req) /\ codes /\ NeedsFundamental(req) IN
    /\ stocksOp = NoCall
    /\ \E wSweepF \in SweepWrites(needF, file, now) :
       \E fund \in FetchChoices(needF, file, req.date, RequiredMetrics(req), now, wSweepF,
                                FundamentalResults) :
       \E wSaveF \in SaveWrites(fund) :
           LET partF == IF needF
                        THEN DatasetPart(file, req.date, RequiredMetrics(req), now, fund,
                                         FUNDAMENTAL_CACHE_EXPIRE_DAYS, wSweepF, wSaveF)
                        ELSE NoPart(file)
               needS == Accepted(req) /\ codes /\ partF.raised = "none" /\ NeedsFs(req)
                            /\ req.fs_date # ""
           IN
           \E wSweepS \in SweepWrites(needS, fsFile, now) :
           \E fs \in FetchChoices(needS, fsFile, req.fs_date, req.fs_metrics_list, now,
                                  wSweepS, FsResults) :
           \E wSaveS \in SaveWrites(fs) :
               LET partS == IF needS
                            THEN DatasetPart(fsFile, req.fs_date, req.fs_metrics_list, now, fs,
                                             FS_CACHE_EXPIRE_DAYS, wSweepS, wSaveS)
                            ELSE NoPart(fsFile)
                   out == IF ~Accepted(req) THEN Failed("rejected")
                          ELSE IF ~codes THEN Failed("Exception")
                          ELSE IF partF.raised # "none" THEN Failed(partF.raised)
                          ELSE IF NeedsFs(req) /\ req.fs_date = "" THEN Failed("ValueError")
                          ELSE IF partS.raised # "none" THEN Failed(partS.raised)
                          ELSE MergeFilterName(req, partF.data, partS.data)
               IN
               /\ file' = partF.file
               /\ fsFile' = partS.file
               /\ stocksOp' = [op |-> "filter", req |-> req, at |-> now, codes |-> codes,
                               fundamental |-> [partF EXCEPT !.file = "-", !.data = "-"],
                               fs |-> [partS EXCEPT !.file = "-", !.data = "-"],
                               out |-> out, status |-> StatusOf(out.kind)]
               /\ UNCHANGED now
               /\ UNCHANGED nonStocksVars

NextStocks ==
    \/ Respond
    \/ PassDay
    \/ \E req \in Requests, codes \in BOOLEAN : FilterStocksCall(req, codes)

SpecStocks == InitStocks /\ [][NextStocks]_vars

\* ---- the claims about filter_stocks_by_metrics ----

StocksCalled == stocksOp # NoCall

\* the part fetched a dataset with records and its save_cache raised
SaveFailed(part) == part.put # NotFetched /\ ~part.putOk

\* C19: if writing the freshly fetched dataset to the cache fails after a
\* successful upstream fetch, the call still returns, to the client, the
\* result computed from the fetched records.
C19_WriteFailureConfined ==
    (StocksCalled /\ (SaveFailed(stocksOp.fundamental) \/ SaveFailed(stocksOp.fs))) =>
        /\ stocksOp.out.kind = "returned"
        /\ stocksOp.status = 200

\* the datasets the entries of a cache file hold
CachedDatasets(f) == {_load_cache(f)[d].data : d \in {e \in Dates : _load_cache(f)[e].present}}

\* C20: after any sequence of filter_stocks_by_metrics calls no cache entry
\* holds a dataset with zero records: a fetch that returns total 0 never
\* causes a save_cache.
C20_NoEmptyDatasetCached ==
    /\ \A name \in CachedDatasets(file) \cup CachedDatasets(fsFile) :
            DatasetOf(name).total > 0 /\ DatasetOf(name).data # <<>>
    /\ StocksCalled =>
        \A part \in {stocksOp.fundamental, stocksOp.fs} :
            /\ part.put # NotFetched => DatasetOf(part.put).total > 0
            /\ (part.fetched \notin {NotFetched, FetchRaised}
                    /\ DatasetOf(part.fetched).total = 0) => part.put = NotFetched

\* a call whose fundamental fetch gave no record and whose financial-statement
\* fetch gave two: only the second is in its cache
C20_Witness ==
    /\ StocksCalled
    /\ stocksOp.fundamental.fetched = "F0"
    /\ stocksOp.fundamental.put = NotFetched
    /\ stocksOp.fs.put = "S2"
    /\ CachedDatasets(file) = {}
    /\ CachedDatasets(fsFile) = {"S2"}

\* the entry of a cache file for a date
EntryOf(f, d) == _load_cache(f)[d]

\* the entry is new or changed in this step and is the one the part of the
\* call saved: the fetched records under the list the fetch was made with
WrittenBy(part, call, old, new, d) ==
    (EntryOf(new, d).present /\ EntryOf(new, d) # EntryOf(old, d)) =>
        /\ call.op = "filter"
        /\ part.putOk
        /\ EntryOf(new, d).data = part.fetched
        /\ EntryOf(new, d).hasMetricsList
        /\ EntryOf(new, d).metricsList = part.fetchedWith

\* C21: the metricsList of every entry filter_stocks_by_metrics writes is
\* exactly the metric list passed to the fetch that produced the entry's
\* records: every step that puts or changes an entry of a cache file is a call
\* that fetched those records with that list.
C21_CoverageIsFetchList ==
    [][\A d \in Dates :
            /\ WrittenBy(stocksOp'.fundamental, stocksOp', file, file', d)
            /\ WrittenBy(stocksOp'.fs, stocksOp', fsFile, fsFile', d)]_vars

\* a call fetched with the list [pe_ttm] records that also hold pb, and saved
\* them: the entry is listed with [pe_ttm]
C21_Witness ==
    /\ StocksCalled
    /\ stocksOp.fundamental.putOk
    /\ stocksOp.fundamental.fetched = "F2"
    /\ stocksOp.fundamental.fetchedWith = <<"pe_ttm">>
    /\ EntryOf(file, stocksOp.req.date).metricsList = <<"pe_ttm">>

\* an entry that is there and not expired is changed in this step
Replaced(old, new, d, t) ==
    /\ EntryOf(old, d).present /\ ~IsExpired(EntryOf(old, d), t)
    /\ EntryOf(new, d).present
    /\ EntryOf(new, d) # EntryOf(old, d)

\* the new entry is the whole cache_entry of the part's save_cache
ReplacedWhole(part, new, d, t, expire_days) ==
    EntryOf(new, d) = CacheEntry(part.fetched, part.fetchedWith, t + expire_days * SecondsPerDay)

\* C22: whenever an existing cache entry is changed, it is replaced whole
\* (records, coverage and expiry together), and the fetch that replaces it
\* covers a superset of the metrics the replaced entry covered.
C22_SupersetReplacement ==
    [][\A d \in Dates :
            /\ Replaced(file, file', d, now) =>
                    /\ ReplacedWhole(stocksOp'.fundamental, file', d, now,
                                     FUNDAMENTAL_CACHE_EXPIRE_DAYS)
                    /\ Covers(EntryOf(file, d).metricsList, EntryOf(file', d).metricsList)
            /\ Replaced(fsFile, fsFile', d, now) =>
                    /\ ReplacedWhole(stocksOp'.fs, fsFile', d, now, FS_CACHE_EXPIRE_DAYS)
                    /\ Covers(EntryOf(fsFile, d).metricsList, EntryOf(fsFile', d).metricsList)]_vars

\* what holds instead: the entry is replaced whole, by a fetch for a list the
\* replaced entry did not cover
C22_ReplacedWholeOnUncovered ==
    [][\A d \in Dates :
            /\ Replaced(file, file', d, now) =>
                    /\ ReplacedWhole(stocksOp'.fundamental, file', d, now,
                                     FUNDAMENTAL_CACHE_EXPIRE_DAYS)
                    /\ ~Covers(EntryOf(file', d).metricsList, EntryOf(file, d).metricsList)
            /\ Replaced(fsFile, fsFile', d, now) =>
                    /\ ReplacedWhole(stocksOp'.fs, fsFile', d, now, FS_CACHE_EXPIRE_DAYS)
                    /\ ~Covers(EntryOf(fsFile', d).metricsList, EntryOf(fsFile, d).metricsList)]_vars

\* the step is one filter_stocks_by_metrics call
IsCall == stocksOp = NoCall /\ stocksOp' # NoCall

\* One dataset's read-through in a call: f and g are its cache file before and
\* after the call, metrics the list the call needs for it.
ReadThrough(part, needed, f, g, date, metrics, t, expire_days) ==
    \* a hit makes no upstream request, and only a hit makes none
    /\ part.hit => part.fetched = NotFetched /\ part.put = NotFetched
    /\ (needed /\ part.raised # "IOError") => (part.hit \/ part.fetched # NotFetched)
    /\ ~needed => (~part.hit /\ part.fetched = NotFetched)
    \* what is fetched is fetched with the list the cache was asked for
    /\ part.fetched # NotFetched => (~part.hit /\ part.fetchedWith = metrics)
    \* a result with records is written back
    /\ (part.fetched \notin {NotFetched, FetchRaised} /\ DatasetOf(part.fetched).total > 0) =>
            part.put = part.fetched
    /\ part.putOk =>
            EntryOf(g, date) = CacheEntry(part.fetched, metrics, t + expire_days * SecondsPerDay)
    \* the entry of a call for the same date and list, its time to live not
    \* over, serves the call
    /\ (needed /\ EntryOf(f, date).present /\ EntryOf(f, date).hasMetricsList
            /\ EntryOf(f, date).metricsList = metrics /\ t < EntryOf(f, date).expireAt
            /\ part.raised # "IOError") =>
            /\ part.hit /\ part.fetched = NotFetched
            /\ _load_cache(g) = CleanedStore(_load_cache(f), t)

\* C23: read-through.  The cache is consulted per dataset before any upstream
\* request; on a hit no upstream request is made for the dataset; on a miss
\* the fetch runs and a result with records is written back, so that the same
\* request repeated before the time to live is over is served from the cache
\* with no upstream request.
C23_ReadThrough ==
    [][IsCall =>
        LET call == stocksOp'
            req == call.req
            needF == Accepted(req) /\ call.codes /\ NeedsFundamental(req)
            needS == Accepted(req) /\ call.codes /\ call.fundamental.raised = "none" /\ NeedsFs(req)
                        /\ req.fs_date # ""
        IN /\ ReadThrough(call.fundamental, needF, file, file', req.date,
                          RequiredMetrics(req), now, FUNDAMENTAL_CACHE_EXPIRE_DAYS)
           /\ ReadThrough(call.fs, needS, fsFile, fsFile', req.fs_date,
                          req.fs_metrics_list, now, FS_CACHE_EXPIRE_DAYS)]_vars

\* a call served from both caches, a day after the entries were written
C23_Witness ==
    /\ StocksCalled
    /\ stocksOp.fundamental.hit /\ stocksOp.fs.hit
    /\ stocksOp.fundamental.fetched = NotFetched /\ stocksOp.fs.fetched = NotFetched
    /\ stocksOp.at > SecondsPerDay
    /\ stocksOp.status = 200

\* neither a filter nor a metric list of either kind is supplied
NothingAsked(req) ==
    /\ DOMAIN req.metrics_filter = {} /\ req.metrics_list = <<>>
    /\ DOMAIN req.fs_metrics_filter = {} /\ req.fs_metrics_list = <<>>

\* financial-statement filters are supplied without a date
FsFilterWithoutDate(req) == DOMAIN req.fs_metrics_filter # {} /\ req.fs_date = ""

\* the call ended in a validation error: the client is answered 400, no result
ValidationError(call) ==
    /\ call.out.kind \in {"ValueError", "rejected"}
    /\ call.status = 400
    /\ call.out.data = <<>>

\* C24: the call fails with a validation error, and returns no result,
\* whenever no metrics or filters of either kind are supplied, and whenever
\* financial-statement filters are supplied without a financial-statement date.
C24_ValidationError ==
    (StocksCalled /\ (NothingAsked(stocksOp.req) \/ FsFilterWithoutDate(stocksOp.req))) =>
        ValidationError(stocksOp)

\* what holds instead: the request without a date is rejected before the call;
\* the request that asks nothing is a validation error when the stock codes
\* could be read, and the failure to read them otherwise
C24_ValidationErrorAfterCodes ==
    StocksCalled =>
        /\ FsFilterWithoutDate(stocksOp.req) => ValidationError(stocksOp)
        /\ (NothingAsked(stocksOp.req) /\ stocksOp.codes) => ValidationError(stocksOp)
        /\ (NothingAsked(stocksOp.req) /\ ~stocksOp.codes) =>
                (stocksOp.out.kind = "Exception" /\ stocksOp.status = 500)

\* the records the call returned
Returned == {stocksOp.out.data[i] : i \in 1..Len(stocksOp.out.data)}

\* the name the fetched record of the code came with, if it came with one
UpstreamRecords ==
    UNION {{DatasetOf(n).data[i] : i \in 1..Len(DatasetOf(n).data)} :
                n \in FundamentalResults \cup FsResults}
OwnNames(code) ==
    {r.stockName : r \in {u \in UpstreamRecords :
                            u.stockCode = code /\ Truthy(Get(u, "stockName"))}}

\* C25: every record the call returns carries a display name: the name the
\* code-to-name mapping gives for its stockCode when the code is in the
\* mapping, and the stockCode itself when the code is absent from the mapping.
C25_DisplayName ==
    (StocksCalled /\ stocksOp.out.kind = "returned") =>
        \A r \in Returned :
            /\ "stockName" \in DOMAIN r
            /\ r.stockCode \in DOMAIN StockNameMapping =>
                    r.stockName = StockNameMapping[r.stockCode]
            /\ r.stockCode \notin DOMAIN StockNameMapping => r.stockName = r.stockCode

\* C25, amended: a record whose code is absent from the mapping keeps the
\* stockName it was fetched with, if it has one, and is named by its stockCode
\* only if it has none.
C25_DisplayNameKeepsOwn ==
    (StocksCalled /\ stocksOp.out.kind = "returned") =>
        \A r \in Returned :
            /\ "stockName" \in DOMAIN r
            /\ r.stockCode \in DOMAIN StockNameMapping =>
                    r.stockName = StockNameMapping[r.stockCode]
            /\ (r.stockCode \notin DOMAIN StockNameMapping /\ OwnNames(r.stockCode) = {}) =>
                    r.stockName = r.stockCode
            /\ (r.stockCode \notin DOMAIN StockNameMapping /\ OwnNames(r.stockCode) # {}) =>
                    r.stockName \in OwnNames(r.stockCode)

\* a call returned the financial-statement records: one named by the mapping
\* over the name it came with, one, absent from the mapping, keeping its name
C25_Witness ==
    /\ StocksCalled /\ stocksOp.out.kind = "returned"
    /\ \E r \in Returned : /\ r.stockCode = StockA
                            /\ r.stockName = StockNameMapping[StockA]
                            /\ r.stockName \notin OwnNames(StockA)
                            /\ "roe" \in DOMAIN r
    /\ \E r \in Returned : r.stockCode = StockC /\ r.stockName = Str(<<"c">>)

\* a call returned a record absent from the mapping and fetched without a
\* name: it is named by its code
C25_WitnessCode ==
    /\ StocksCalled /\ stocksOp.out.kind = "returned"
    /\ \E r \in Returned : r.stockCode = StockB /\ r.stockName = StockB

\* the call got as far as the financial-statement block: the request passed
\* handle_post, the stock codes were there and the fundamental block did not
\* raise
ReachedFsBlock ==
    /\ StocksCalled
    /\ Accepted(stocksOp.req)
    /\ stocksOp.codes
    /\ stocksOp.fundamental.raised = "none"

\* the list the financial-statement data is to be asked with: fsMetricsList
\* when one is given, else the keys of fsMetricsFilter
FsListOrFilterKeys(req) ==
    IF req.fs_metrics_list # <<>> THEN req.fs_metrics_list ELSE KeysList(req.fs_metrics_filter)

\* the financial-statement data was asked for with the list: the cache was
\* asked, and on a miss the fetch was made with it
FsAskedWith(list) ==
    /\ stocksOp.fs.raised = "none" =>
            (stocksOp.fs.hit \/ stocksOp.fs.fetched # NotFetched)
    /\ stocksOp.fs.fetched # NotFetched => stocksOp.fs.fetchedWith = list
    /\ (stocksOp.fs.raised # "none" \/ stocksOp.fs.hit \/ stocksOp.fs.fetched # NotFetched)

\* C31: filterStocks fetches financial-statement data with the supplied
\* fsMetricsList when one is given, and otherwise with the metric list made of
\* the keys of fsMetricsFilter, so a request that supplies only
\* financial-statement filters and a date still has those filters evaluated
\* against fetched financial-statement values.
C31_FsListFromFilterKeys ==
    (/\ ReachedFsBlock
     /\ stocksOp.req.fs_date # ""
     /\ (stocksOp.req.fs_metrics_list # <<>> \/ DOMAIN stocksOp.req.fs_metrics_filter # {})) =>
        FsAskedWith(FsListOrFilterKeys(stocksOp.req))

\* C31, for the requests that give an fsMetricsList: the financial-statement
\* data is asked for with that list.
C31_FsListWhenGiven ==
    (/\ ReachedFsBlock
     /\ stocksOp.req.fs_date # ""
     /\ stocksOp.req.fs_metrics_list # <<>>) =>
        FsAskedWith(stocksOp.req.fs_metrics_list)

\* ---- the combined filter, on merged records ----

\* The merged records the combined filter is given: a code, pe_ttm and pb of
\* the fundamental data, roe of the financial statements.
CombineRecords(c) ==
    {[stockCode |-> Str(<<c>>), pe_ttm |-> Num(pe), pb |-> Num(1), roe |-> Num(roe)] :
        pe \in {5, 15, 30}, roe \in {5, 12}}

CombineLists ==
    {<<r>> : r \in CombineRecords("A")}
    \cup {<<r, q>> : r \in CombineRecords("A"), q \in CombineRecords("B")}

\* metricsFilter and fsMetricsFilter of the request; both can name pe_ttm
FundamentalFilters ==
    {NoFilter, PeFilter,
     [k \in {"pe_ttm", "pb"} |-> IF k = "pe_ttm" THEN List(<<Num(10), Num(20)>>)
                                 ELSE List(<<Num(0), Num(2)>>)]}
FsFilters ==
    {NoFilter, RoeFilter,
     [k \in {"pe_ttm"} |-> List(<<Num(25), Num(35)>>)],
     [k \in {"pe_ttm", "roe"} |-> IF k = "pe_ttm" THEN List(<<Num(25), Num(35)>>)
                                  ELSE List(<<Num(10), Null>>)]}

InitCombine ==
    /\ ConfigIdle
    /\ CacheIdle
    /\ FetchIdle
    /\ ReqIdle
    /\ StocksIdle
    /\ ThreadsIdle
    /\ args \in [merged : CombineLists, metrics_filter : FundamentalFilters,
                 fs_metrics_filter : FsFilters]
    /\ result = Pending

\* the filters are combined and the merged records filtered
CombineAndFilter ==
    /\ result = Pending
    /\ "merged" \in DOMAIN args
    /\ result' = [combined_filter |-> CombinedFilter(args.metrics_filter, args.fs_metrics_filter),
                  value |-> FilteredByCombined(args.merged, args.metrics_filter,
                                               args.fs_metrics_filter)]
    /\ UNCHANGED args
    /\ UNCHANGED nonPureVars

NextCombine == CombineAndFilter

SpecCombine == InitCombine /\ [][NextCombine]_vars

Combined == "merged" \in DOMAIN args /\ result # Pending

\* the number under key of the record lies in the range [min, max]; a bound
\* that is null is open
Within(stock, key, range) ==
    /\ (range.list[1] # Null => stock[key].num >= range.list[1].num)
    /\ (range.list[2] # Null => stock[key].num <= range.list[2].num)

\* the record passes every financial-statement range, and the fundamental
\* range of every key the financial-statement filter does not name
PassesFsFirst(stock) ==
    /\ \A k \in DOMAIN args.fs_metrics_filter : Within(stock, k, args.fs_metrics_filter[k])
    /\ \A k \in DOMAIN args.metrics_filter \ DOMAIN args.fs_metrics_filter :
            Within(stock, k, args.metrics_filter[k])

\* C35: when the fundamental filter and the financial-statement filter both
\* contain the same metric key, only the financial-statement range is evaluated
\* for that key (the fundamental range for it is discarded); keys present in
\* only one filter keep their own range.
C35_CombinedFilter ==
    Combined =>
        /\ DOMAIN result.combined_filter
                = DOMAIN args.metrics_filter \cup DOMAIN args.fs_metrics_filter
        /\ \A k \in DOMAIN args.fs_metrics_filter :
                result.combined_filter[k] = args.fs_metrics_filter[k]
        /\ \A k \in DOMAIN args.metrics_filter \ DOMAIN args.fs_metrics_filter :
                result.combined_filter[k] = args.metrics_filter[k]
        /\ result.value = SelectSeq(args.merged, PassesFsFirst)

\* both filters name pe_ttm with ranges that exclude each other, and each has
\* a key of its own: the record with pe_ttm 30 is returned, the one with 15 is
\* not
C35_Witness ==
    /\ Combined
    /\ DOMAIN args.metrics_filter = {"pe_ttm", "pb"}
    /\ DOMAIN args.fs_metrics_filter = {"pe_ttm", "roe"}
    /\ Len(args.merged) = 2
    /\ args.merged[1].pe_ttm = Num(15)
    /\ args.merged[2].pe_ttm = Num(30)
    /\ args.merged[2].roe = Num(12)
    /\ result.value = <<args.merged[2]>>

(***************************************************************************)
(* Part 9: process_fs_data (api_handler.py)                                *)
(***************************************************************************)

\* the loop over fs_metrics_list: the values are extracted from fs_data and
\* put into processed_data under the whole field key
RECURSIVE ProcessFields(_, _, _)
ProcessFields(processed_data, fs_data, keys) ==
    IF keys = <<>> THEN processed_data
    ELSE LET field_key == Head(keys)
             value == extract_nested_field_value(fs_data, field_key)
         IN IF field_key = <<>> THEN ProcessFields(processed_data, fs_data, Tail(keys))
            ELSE IF value # Null
                 THEN ProcessFields(
                        [k \in DOMAIN processed_data \cup {field_key} |->
                            IF k = field_key THEN value ELSE processed_data[k]],
                        fs_data, Tail(keys))
                 ELSE ProcessFields(processed_data, fs_data, Tail(keys))

\* `processed_data = fs_data.copy()`: the assignments go to the copy, the
\* caller's record is as it was
AliasMutant(fs_data, processed_data) == processed_data

AfterCopy(fs_data, processed_data) == fs_data

\* process_fs_data: what it returns and the caller's record after the call
process_fs_data(fs_data, fs_metrics_list) ==
    IF ~Truthy(fs_data) \/ fs_metrics_list = <<>>
    THEN [value |-> fs_data, fs_data |-> fs_data]
    ELSE LET processed_data == Dict(ProcessFields(fs_data.dict, fs_data, fs_metrics_list))
         IN [value |-> processed_data, fs_data |-> AfterCopy(fs_data, processed_data)]

\* The records: mappings over a and b, nested once, and one that has the
\* dotted key itself at the top.
KeyAB == <<"a", ".", "b">>
KeyBA == <<"b", ".", "a">>
FsRecords ==
    DictsOver(Leaves \cup DictsOver({Num(2038), Null}))
    \cup {Dict([k \in {KeyA, KeyAB} |-> IF k = KeyA THEN Dict([j \in {KeyB} |-> Num(2038)])
                                                   ELSE Num(0)])}
\* The metric lists: up to two field keys, the empty key among them.
FsFieldKeys == {<<>>, KeyA, KeyB, KeyAB, KeyBA}
FsMetricLists == UNION {[1..n -> FsFieldKeys] : n \in 0..2}

InitProcess ==
    /\ ConfigIdle
    /\ CacheIdle
    /\ FetchIdle
    /\ ReqIdle
    /\ StocksIdle
    /\ ThreadsIdle
    /\ args \in [fs_data : FsRecords, fs_metrics_list : FsMetricLists]
    /\ result = Pending

ProcessFsData ==
    /\ result = Pending
    /\ "fs_metrics_list" \in DOMAIN args
    /\ result' = process_fs_data(args.fs_data, args.fs_metrics_list)
    /\ UNCHANGED args
    /\ UNCHANGED nonPureVars

NextProcess == ProcessFsData

SpecProcess == InitProcess /\ [][NextProcess]_vars

\* ---- the claim about process_fs_data ----

ProcessReturned == "fs_metrics_list" \in DOMAIN args /\ result # Pending

\* the requested paths whose extraction yields a present value
PresentPaths ==
    {p \in SeqToSet(args.fs_metrics_list) :
        extract_nested_field_value(args.fs_data, p) # Null}

\* C26: for every requested dotted path whose extraction yields a present
\* value, the processed record has a top-level key equal to the full dotted
\* path holding that value; every key of the original record, the nested
\* structure included, is retained; paths with no present value add no key;
\* and the input record is not modified.
C26_ProcessFsData ==
    ProcessReturned =>
        /\ \A p \in PresentPaths :
                /\ p \in DOMAIN result.value.dict
                /\ result.value.dict[p] = extract_nested_field_value(args.fs_data, p)
        /\ \A k \in DOMAIN args.fs_data.dict :
                /\ k \in DOMAIN result.value.dict
                /\ k \notin PresentPaths => result.value.dict[k] = args.fs_data.dict[k]
        /\ DOMAIN result.value.dict = DOMAIN args.fs_data.dict \cup PresentPaths
        /\ result.fs_data = args.fs_data

\* a record with a.b = 2038, asked for a.b and for b.a, which it has not: the
\* value is under the key "a.b", the nested a is kept, no key "b.a" is added
C26_Witness ==
    /\ ProcessReturned
    /\ args.fs_metrics_list = <<KeyAB, KeyBA>>
    /\ DOMAIN args.fs_data.dict = {KeyA}
    /\ DOMAIN result.value.dict = {KeyA, KeyAB}
    /\ result.value.dict[KeyAB] = Num(2038)
    /\ result.value.dict[KeyA] = Dict([j \in {KeyB} |-> Num(2038)])
    /\ result.fs_data = args.fs_data

(***************************************************************************)
(* Part 10: get_cache and save_cache called by two threads on one cache    *)
(* file (data_cache.py).  The calls take no lock; a call is the sequence   *)
(* of its file operations, and the steps of the two calls interleave.      *)
(***************************************************************************)

\* The last reading of the clock of this part.
MaxThreadClock == 3

ThreadMetrics == <<"pe_ttm">>

\* The entries the file holds before the calls: one expired at the first
\* clock reading, one that expires at the next, one that stays fresh.
FirstThreadClock == 2
EntryOld == CacheEntry("old", ThreadMetrics, FirstThreadClock - 1)
EntryMid == CacheEntry("mid", ThreadMetrics, FirstThreadClock)
EntryFresh == CacheEntry("fresh", ThreadMetrics, FirstThreadClock + SecondsPerDay)
InitialFiles ==
    {AbsentFile} \cup {OkFile(st) : st \in [Dates -> {NoEntry, EntryOld, EntryMid, EntryFresh}]}

\* the thread is inside a call
Running(q) == threads[q].pc \notin {"idle", "done"}

\* the number of entries of a store: the more entries, the longer the file
Entries(store) == Cardinality({d \in Dates : store[d].present})

\* the file after json.dump and close: the text is written from offset 0 over
\* what another thread wrote since this thread's open truncated the file; a
\* shorter text leaves the tail of the longer one behind it
Dumped(f, store) ==
    IF f.state = "ok" /\ Entries(store) < Entries(f.store) THEN CorruptFile ELSE OkFile(store)

InitThreads ==
    /\ ConfigIdle
    /\ FetchIdle
    /\ PureIdle
    /\ ReqIdle
    /\ StocksIdle
    /\ cacheOp = IdleOp /\ prevOp = IdleOp
    /\ file \in InitialFiles
    /\ file0 = file
    /\ now = FirstThreadClock
    /\ threads = [p \in Threads |-> NoThreadCall]

\* a thread calls get_cache(date, metrics_list, cache_file) or
\* save_cache(date, data, metrics_list, cache_file, expire_days)
ThreadCall(p, op, date) ==
    /\ threads[p].pc = "idle"
    /\ threads' = [q \in Threads |->
                        IF q = p
                        THEN [NoThreadCall EXCEPT !.op = op, !.pc = "load", !.date = date,
                                                  !.overlapped = \E r \in Threads \ {p} : Running(r)]
                        ELSE [threads[q] EXCEPT !.overlapped = @ \/ Running(q)]]
    /\ UNCHANGED <<file, file0, now>>
    /\ UNCHANGED nonThreadVars

\* `cache_data = _load_cache(cache_file)`; get_cache returns None for an
\* empty store, save_cache makes its cache_entry and sets it
ThreadLoad(p) ==
    LET cache_data == _load_cache(file)
        cache_entry == CacheEntry("new", ThreadMetrics,
                                  now + FUNDAMENTAL_CACHE_EXPIRE_DAYS * SecondsPerDay)
    IN
    /\ threads[p].pc = "load"
    /\ threads' = [threads EXCEPT ![p] =
            IF threads[p].op = "get"
            THEN IF IsEmptyStore(cache_data)
                 THEN [@ EXCEPT !.pc = "done", !.ret = Miss, !.at = now]
                 ELSE [@ EXCEPT !.pc = "clean", !.local = cache_data]
            ELSE [@ EXCEPT !.pc = "open", !.entry = cache_entry,
                           !.local = SetEntry(cache_data, threads[p].date, cache_entry)]]
    /\ UNCHANGED <<file, file0, now>>
    /\ UNCHANGED nonThreadVars

\* _clean_expired_cache up to its _save_cache
ThreadClean(p) ==
    /\ threads[p].pc = "clean"
    /\ threads' = [threads EXCEPT ![p] =
            IF ExpiredDates(threads[p].local, now) # {}
            THEN [@ EXCEPT !.pc = "open", !.local = CleanedStore(@, now)]
            ELSE [@ EXCEPT !.pc = "lookup"]]
    /\ UNCHANGED <<file, file0, now>>
    /\ UNCHANGED nonThreadVars

\* _save_cache: `open(cache_file, 'w')` truncates the file
ThreadOpen(p) ==
    /\ threads[p].pc = "open"
    /\ file' = CorruptFile
    /\ threads' = [threads EXCEPT ![p].pc = "dump"]
    /\ UNCHANGED <<file0, now>>
    /\ UNCHANGED nonThreadVars

\* _save_cache: json.dump and the close of the file
ThreadDump(p) ==
    /\ threads[p].pc = "dump"
    /\ file' = Dumped(file, threads[p].local)
    /\ threads' = [threads EXCEPT ![p].pc = IF threads[p].op = "get" THEN "lookup" ELSE "done"]
    /\ UNCHANGED <<file0, now>>
    /\ UNCHANGED nonThreadVars

\* get_cache from `cached_value = cache_data.get(date)` on
ThreadLookup(p) ==
    /\ threads[p].pc = "lookup"
    /\ threads' = [threads EXCEPT ![p] =
            [@ EXCEPT !.pc = "done", !.at = now,
                      !.ret = Lookup(threads[p].local, threads[p].date, ThreadMetrics, now)]]
    /\ UNCHANGED <<file, file0, now>>
    /\ UNCHANGED nonThreadVars

\* a second passes
ThreadTick ==
    /\ now < MaxThreadClock
    /\ now' = now + 1
    /\ UNCHANGED <<file, file0, threads>>
    /\ UNCHANGED nonThreadVars

NextThreads ==
    \/ \E p \in Threads, op \in {"get", "save"}, date \in Dates : ThreadCall(p, op, date)
    \/ \E p \in Threads : ThreadLoad(p)
    \/ \E p \in Threads : ThreadClean(p)
    \/ \E p \in Threads : ThreadOpen(p)
    \/ \E p \in Threads : ThreadDump(p)
    \/ \E p \in Threads : ThreadLookup(p)
    \/ ThreadTick

SpecThreads == InitThreads /\ [][NextThreads]_vars

\* ---- the claims about concurrent callers ----

\* both threads made a save_cache, for different dates, and both returned
BothSaved ==
    /\ \A p \in Threads : threads[p].op = "save" /\ threads[p].pc = "done"
    /\ threads[1].date # threads[2].date

\* the file holds the entries of both
BothKept ==
    /\ file.state = "ok"
    /\ \A p \in Threads : file.store[threads[p].date] = threads[p].entry

\* C27: save_cache calls on the same file do not lose updates: after two
\* calls for different dates that overlap in time have both completed, the
\* file holds both entries, for every interleaving of their load and write
\* steps.
C27_WritersKeepBothUpdates == BothSaved => BothKept

\* what holds instead: both entries are kept when the second call began after
\* the first had returned
C27_SerialWritersKeepBoth == (BothSaved /\ ~threads[1].overlapped) => BothKept

\* only get_cache calls are made
ReadersOnly == \A p \in Threads : threads[p].op \in {"none", "get"}

\* every get_cache that returned, returned what a call alone at its clock
\* reading returns; no entry that is not expired is gone from the file once
\* no write is under way
ReadersSafe ==
    /\ \A p \in Threads :
            threads[p].pc = "done" =>
                threads[p].ret = Lookup(_load_cache(file0), threads[p].date, ThreadMetrics,
                                        threads[p].at)
    /\ (\A p \in Threads : threads[p].pc # "dump") =>
            \A d \in Dates :
                (file0.store[d].present /\ ~IsExpired(file0.store[d], now)) =>
                    (file.state = "ok" /\ file.store[d] = file0.store[d])

\* C28: for every interleaving of get_cache calls on the same file with no
\* writer running, no unexpired entry is removed from the file and each call
\* returns what it would return when run alone at the same clock value.
C28_ReadersAreSafe == ReadersOnly => ReadersSafe

\* what holds instead: the calls are safe when one begins after the other
\* has returned
C28_SerialReadersAreSafe ==
    (ReadersOnly /\ \A p \in Threads : ~threads[p].overlapped) => ReadersSafe

\* one thread made a get_cache and the other a save_cache, and both returned
GetAndPutDone ==
    \E p \in Threads, q \in Threads :
        /\ threads[p].op = "get" /\ threads[p].pc = "done"
        /\ threads[q].op = "save" /\ threads[q].pc = "done"

\* the file holds the entry of every save_cache that returned
PutEntriesKept ==
    \A q \in Threads :
        (threads[q].op = "save" /\ threads[q].pc = "done") =>
            (file.state = "ok" /\ file.store[threads[q].date] = threads[q].entry)

\* C39: an unexpired entry written by a save_cache that has completed is never
\* removed from the file by a get_cache on the same file that overlaps it in
\* time: for every interleaving of the load and sweep-write steps of the
\* get_cache with the load and write steps of the save_cache, the entry is in
\* the file once both have finished.
C39_GetKeepsPutEntry == GetAndPutDone => PutEntriesKept

\* what holds instead: the entry is in the file when one call began after the
\* other had returned
C39_SerialGetKeepsPutEntry ==
    (GetAndPutDone /\ \A p \in Threads : ~threads[p].overlapped) => PutEntriesKept

(***************************************************************************)
(* Part 11: the way an error of the upstream API goes from request_api     *)
(* through get_stock_fundamentals / get_stock_fs_data and get_stock_data   *)
(* to the response of handle_post (api_handler.py)                         *)
(***************************************************************************)

\* the keys of the futures of get_stock_data, in the order they are collected
FutureKeys == <<"fundamental", "fs">>

\* The metricsList objects handle_post lets through: the keys with a non-empty
\* list.
MetricsLists == {{"fundamental"}, {"fs"}, {"fundamental", "fs"}}

\* the text of an api_error_message that request_api made
UpstreamText(s) == [text |-> s]

\* the message of the generic failure: "Internal Server Error: ..."
InternalServerError == [generic |-> TRUE]

\* The response bodies of the upstream that parse as JSON.
ParsedBodies ==
    {b \in ResponseBodies :
        \/ DOMAIN b = {"data"}
        \/ DOMAIN b = {"error"} /\ b["error"] \in {Str(<<"d", "e", "n", "i", "e", "d">>),
                                                   Str(<<"S", "U", "C", "C", "E", "S", "S">>)}
        \/ DOMAIN b = {"message"} /\ b["message"] = Str(<<"d", "e", "n", "i", "e", "d">>)}

\* What request_api returns or raises: bytes that parse to a body, bytes that
\* are no JSON, the error tagged with the message of an HTTP error response,
\* and the transport failure that is left after the last attempt.
RequestOutcomes ==
    {[kind |-> "bytes", json |-> TRUE, body |-> b, message |-> ""] : b \in ParsedBodies}
    \cup {[kind |-> "bytes", json |-> FALSE, body |-> <<>>, message |-> ""]}
    \cup {[kind |-> "api_error", json |-> FALSE, body |-> <<>>, message |-> ApiErrorMessage(b, c)] :
            b \in ErrorBodies, c \in HttpCodes}
    \cup {[kind |-> "transport", json |-> FALSE, body |-> <<>>, message |-> ""]}

\* the exception of a failure that carries no api_error_message
WrappedError == [kind |-> "wrapped", tagged |-> FALSE, message |-> NoErrorMsg]

\* `if hasattr(e, 'api_error_message'): raise`, else the wrapped exception
WrapAllMutant(e) == WrappedError

Reraise(e) == IF e.tagged THEN e ELSE WrappedError

\* get_stock_fundamentals and get_stock_fs_data, from what request_api
\* returned or raised
GetStockDataset(r) ==
    IF r.kind = "bytes"
    THEN (IF ~r.json THEN Reraise(WrappedError)
          ELSE IF CheckedBody(r.body).kind = "returned" THEN CheckedBody(r.body)
          ELSE Reraise(CheckedBody(r.body)))
    ELSE IF r.kind = "api_error"
         THEN Reraise([kind |-> "api_error", tagged |-> TRUE, message |-> UpstreamText(r.message)])
    ELSE Reraise([kind |-> "transport", tagged |-> FALSE, message |-> NoErrorMsg])

\* the first key of the futures, in the order of collection, whose result()
\* raises; 0 when none does
FirstRaising(futures) ==
    LET raising == {i \in DOMAIN FutureKeys :
                        /\ FutureKeys[i] \in DOMAIN futures
                        /\ futures[FutureKeys[i]].kind # "returned"}
    IN  IF raising = {} THEN 0 ELSE CHOOSE i \in raising : \A j \in raising : i <= j

\* get_stock_data, from the results of its futures
get_stock_data(futures) ==
    IF FirstRaising(futures) = 0
    THEN [kind |-> "returned", tagged |-> FALSE, message |-> NoErrorMsg]
    ELSE Reraise(futures[FutureKeys[FirstRaising(futures)]])

\* the response handle_post sends for what get_stock_data returned or raised
StockDataResponse(out) ==
    IF out.kind = "returned" THEN [status |-> 200, error |-> NoErrorMsg]
    ELSE IF out.tagged THEN [status |-> 400, error |-> out.message]
    ELSE [status |-> 500, error |-> InternalServerError]

NoResponse == [status |-> 0, error |-> NoErrorMsg]

InitForward ==
    /\ ConfigIdle
    /\ CacheIdle
    /\ FetchIdle
    /\ ReqIdle
    /\ StocksIdle
    /\ ThreadsIdle
    /\ args \in UNION {[metrics_list : {m}, upstream : [m -> RequestOutcomes]] : m \in MetricsLists}
    /\ result = [futures |-> <<>>, response |-> NoResponse]

\* the futures once the worker under key ran to its end
Done(futures, key, outcomes) ==
    [k \in DOMAIN futures \cup {key} |->
        IF k = key THEN GetStockDataset(outcomes[key]) ELSE futures[k]]

\* the worker of future_fundamental runs get_stock_fundamentals to its end
FutureFundamental ==
    /\ "upstream" \in DOMAIN args
    /\ "fundamental" \in args.metrics_list
    /\ "fundamental" \notin DOMAIN result.futures
    /\ result' = [result EXCEPT !.futures = Done(result.futures, "fundamental", args.upstream)]
    /\ UNCHANGED args
    /\ UNCHANGED nonPureVars

\* the worker of future_fs runs get_stock_fs_data to its end
FutureFs ==
    /\ "upstream" \in DOMAIN args
    /\ "fs" \in args.metrics_list
    /\ "fs" \notin DOMAIN result.futures
    /\ result' = [result EXCEPT !.futures = Done(result.futures, "fs", args.upstream)]
    /\ UNCHANGED args
    /\ UNCHANGED nonPureVars

\* get_stock_data collects the results and handle_post sends the response
PostStockCodes ==
    /\ "upstream" \in DOMAIN args
    /\ DOMAIN result.futures = args.metrics_list
    /\ result.response = NoResponse
    /\ result' = [result EXCEPT !.response = StockDataResponse(get_stock_data(result.futures))]
    /\ UNCHANGED args
    /\ UNCHANGED nonPureVars

NextForward == FutureFundamental \/ FutureFs \/ PostStockCodes

SpecForward == InitForward /\ [][NextForward]_vars

\* ---- the claim about the forwarding ----

Responded == "upstream" \in DOMAIN args /\ result.response # NoResponse

\* the upstream message of the request made for key: the message of the HTTP
\* error response, or the message the body check finds in a body without data
TaggedMessage(key) ==
    LET r == args.upstream[key]
    IN  IF r.kind = "api_error" THEN UpstreamText(r.message)
        ELSE IF r.kind = "bytes" /\ r.json /\ "data" \notin DOMAIN r.body
             THEN ErrorMsgOf(r.body)
        ELSE NoErrorMsg

\* the request made for key ended without an error
RequestSucceeded(key) ==
    LET r == args.upstream[key]
    IN  /\ r.kind = "bytes"
        /\ r.json
        /\ TaggedMessage(key) = NoErrorMsg
        /\ "data" \in DOMAIN r.body => IsList(r.body["data"])

\* the key whose error get_stock_data meets first
Reported(key) ==
    /\ key \in args.metrics_list
    /\ ~RequestSucceeded(key)
    /\ key = "fs" => ("fundamental" \notin args.metrics_list \/ RequestSucceeded("fundamental"))

C29_WitnessTransport ==
    /\ Responded
    /\ args.metrics_list = {"fundamental"}
    /\ args.upstream["fundamental"].kind = "transport"
    /\ result.response = [status |-> 500, error |-> InternalServerError]

(***************************************************************************)
(* Part 12: FilterConfigManager (filter_config.py): the filter             *)
(* configuration of the user, one JSON file for the two types              *)
(***************************************************************************)

\* The longest list of a request and of a file before the calls.
MaxConfigLen == 2

ConfigTypes == {"fundamental", "fs"}
ConfigKeys == {"pe_ttm", "roe"}

\* an item without a 'type' field, and type_filter None
NoType == "absent"
NoTypeFilter == "None"

\* an item of a configuration: a dict with 'key', with or without 'label' and
\* 'type'
Item(key, label, type) == [key |-> key, label |-> label, type |-> type]

\* the file: {"data": [...]}, the older {"fundamental": [...], "fs": [...]}, or
\* text that json.load does not read
DataConfig(data) == [state |-> "data", data |-> data]
KeyedConfig(fundamental, fs) == [state |-> "keyed", fundamental |-> fundamental, fs |-> fs]
CorruptConfig == [state |-> "corrupt"]

FileItems == {Item(k, TRUE, t) : k \in ConfigKeys, t \in {NoType} \cup ConfigTypes}
FileLists == UNION {[1..n -> FileItems] : n \in 0..MaxConfigLen}
UntaggedLists == UNION {[1..n -> {Item(k, TRUE, NoType) : k \in ConfigKeys}] : n \in 0..1}
InitialConfigs ==
    {AbsentConfig, CorruptConfig}
    \cup {DataConfig(data) : data \in FileLists}
    \cup {KeyedConfig(fundamental, fs) : fundamental \in UntaggedLists, fs \in UntaggedLists}

\* the lists of a request: items without a type, one that carries the type of
\* an earlier save, one without a label
RequestItems ==
    {Item(k, TRUE, NoType) : k \in ConfigKeys}
    \cup {Item("pe_ttm", TRUE, "fundamental"), Item("roe", FALSE, NoType)}
RequestLists == UNION {[1..n -> RequestItems] : n \in 0..MaxConfigLen}

\* `any(item.get('type') for item in data if isinstance(item, dict))`
has_type(data) == \E i \in 1..Len(data) : data[i].type # NoType

\* `[item for item in data if item.get('type') == type]`
OfType(data, type) == SelectSeq(data, LAMBDA item : item.type = type)

BothTypes(fundamental_data, fs_data) == [fundamental |-> fundamental_data, fs |-> fs_data]

\* get_filter_config(type_filter): what it returns for the file
get_filter_config(f, type_filter) ==
    IF f.state \in {"absent", "corrupt"}
    THEN IF type_filter # NoTypeFilter
         THEN [k \in {type_filter} |-> <<>>]
         ELSE BothTypes(<<>>, <<>>)
    ELSE IF f.state = "data"
    THEN IF has_type(f.data)
         THEN IF type_filter = "fundamental" THEN [data |-> OfType(f.data, "fundamental")]
              ELSE IF type_filter = "fs" THEN [data |-> OfType(f.data, "fs")]
              ELSE BothTypes(OfType(f.data, "fundamental"), OfType(f.data, "fs"))
         ELSE IF type_filter = "fundamental" THEN [data |-> f.data]
              ELSE IF type_filter = NoTypeFilter THEN BothTypes(f.data, <<>>)
              ELSE [data |-> <<>>]
    ELSE IF type_filter = "fundamental" THEN [data |-> f.fundamental]
         ELSE IF type_filter = "fs" THEN [data |-> f.fs]
         ELSE BothTypes(f.fundamental, f.fs)

\* `field['type'] = config_type` for every item of the list
Tagged(filter_config, config_type) ==
    [i \in 1..Len(filter_config) |-> [filter_config[i] EXCEPT !.type = config_type]]

\* the list save_filter_config writes under "data"
all_data(f, filter_config, config_type) ==
    LET existing_config == get_filter_config(f, NoTypeFilter)
        fundamental_data == IF config_type = "fundamental"
                            THEN Tagged(filter_config, config_type)
                            ELSE existing_config.fundamental
        fs_data == IF config_type = "fundamental"
                   THEN existing_config.fs
                   ELSE Tagged(filter_config, config_type)
    IN  fundamental_data \o fs_data

\* the file after `open(..., 'w')` and json.dump
WrittenConfig(f, data, w) ==
    CASE w = "ok" -> DataConfig(data)
      [] w = "failOpen" -> f
      [] w = "failDump" -> CorruptConfig

InitConfig ==
    /\ CacheIdle
    /\ FetchIdle
    /\ PureIdle
    /\ ReqIdle
    /\ StocksIdle
    /\ ThreadsIdle
    /\ configFile \in InitialConfigs
    /\ configOp = NoConfigOp

\* GET /api/filter-config[?type=...]
GetFilterConfig(type_filter) ==
    /\ configOp' = [op |-> "get", type_filter |-> type_filter,
                    ret |-> get_filter_config(configFile, type_filter)]
    /\ UNCHANGED configFile
    /\ UNCHANGED nonConfigVars

\* save_filter_config(filter_config, config_type); w is how the write went
SaveFilterConfig(filter_config, config_type, w) ==
    LET call == [op |-> "save", filter_config |-> filter_config, config_type |-> config_type]
    IN
    /\ IF config_type \notin ConfigTypes
          \/ \E i \in 1..Len(filter_config) : ~filter_config[i].label
       THEN /\ configOp' = call @@ [ret |-> "ValueError"]
            /\ UNCHANGED configFile
       ELSE /\ configFile' = WrittenConfig(configFile,
                                           all_data(configFile, filter_config, config_type), w)
            /\ configOp' = call @@ [ret |-> IF w = "ok" THEN "returned" ELSE "Exception"]
    /\ UNCHANGED nonConfigVars

NextConfig ==
    \/ \E type_filter \in {NoTypeFilter, "other"} \cup ConfigTypes : GetFilterConfig(type_filter)
    \/ \E filter_config \in RequestLists, config_type \in ConfigTypes \cup {"other"},
          w \in WriteOutcomes :
            SaveFilterConfig(filter_config, config_type, w)

SpecConfig == InitConfig /\ [][NextConfig]_vars

\* ---- the claim about the filter configuration ----

\* the step is a save_filter_config that returned
SaveReturned == configOp'.op = "save" /\ configOp'.ret = "returned"

OtherType(config_type) == IF config_type = "fundamental" THEN "fs" ELSE "fundamental"

\* after the step get_filter_config() returns the saved list for the type of
\* the save, and for the other type the list it returned before the step
SavedAndOtherKept ==
    LET before == get_filter_config(configFile, NoTypeFilter)
        after == get_filter_config(configFile', NoTypeFilter)
        T == configOp'.config_type
    IN  /\ after[T] = Tagged(configOp'.filter_config, T)
        /\ after[OtherType(T)] = before[OtherType(T)]

\* C40: for every shape of the file (absent, list without type tags,
\* type-tagged list), save_filter_config(list, T) followed by
\* get_filter_config() returns the saved list for type T and, for the other
\* type, exactly the list that get_filter_config() returned before the save.
C40_SaveFrame == [][SaveReturned => SavedAndOtherKept]_vars

\* every item get_filter_config() returns from the file carries its type
AllTagged(f) ==
    LET existing_config == get_filter_config(f, NoTypeFilter)
    IN  /\ \A i \in 1..Len(existing_config.fundamental) :
                existing_config.fundamental[i].type = "fundamental"
        /\ \A i \in 1..Len(existing_config.fs) : existing_config.fs[i].type = "fs"

\* what holds instead: the frame holds for a file whose items carry their
\* types (no file, or a type-tagged list)
C40_SaveFrameOnTaggedFiles ==
    [][(SaveReturned /\ AllTagged(configFile)) => SavedAndOtherKept]_vars

====
